---- MODULE Spec2Model ----
(***************************************************************************)
(* Model of the built-in display orchestrator                              *)
(* (sdm/libs/core/display_builtin.cpp): DisplayBuiltIn::Init, the Prepare  *)
(* fast path, SetRefreshRate and the deferred fps configuration.           *)
(*                                                                         *)
(* Collaborators whose code is outside sdm/libs/core/display_builtin.cpp   *)
(* (hardware interface, composition manager, DisplayBase) appear as        *)
(* outcomes drawn from small sets by the action that calls them.           *)
(***************************************************************************)
EXTENDS Integers, Sequences, FiniteSets, TLC

VARIABLES
  init,   \* DisplayBuiltIn::Init: its inputs, result and resource trace
  d,      \* the DisplayBuiltIn members
  hw,     \* the hardware behind hw_intf_
  call,   \* the operation the client has entered, with its arguments
  last,   \* the outcome of the most recent operation
  pc,     \* where the event thread and the DPPS thread are in their handlers
  dpps,   \* the static members of DppsInfo, shared by all displays
  res     \* the members of ResourceDefault, the pipe allocator

vars == <<init, d, hw, call, last, pc, dpps, res>>

----------------------------------------------------------------------------
(* DisplayError values used by the modelled code.                          *)
kErrorNone == "kErrorNone"
kErrorNotSupported == "kErrorNotSupported"
kErrorParameters == "kErrorParameters"
kErrorResources == "kErrorResources"
kErrorMemory == "kErrorMemory"
kErrorUndefined == "kErrorUndefined"
kErrorHardware == "kErrorHardware"
kErrorNotValidated == "kErrorNotValidated"

(* HWDisplayMode and QSyncMode.                                            *)
kModeVideo == "kModeVideo"
kModeCommand == "kModeCommand"
kQSyncModeNone == "kQSyncModeNone"
kQSyncModeContinuous == "kQSyncModeContinuous"
kQsyncModeOneShot == "kQsyncModeOneShot"
kQsyncModeOneShotContinuous == "kQsyncModeOneShotContinuous"
\* the value of a HWDisplayMode member before any mode is stored in it
kModeDefault == "kModeDefault"
\* FrameTriggerMode; kFrameTriggerMax stands for "no override requested"
kFrameTriggerDefault == "kFrameTriggerDefault"
kFrameTriggerSerialize == "kFrameTriggerSerialize"
kFrameTriggerPostedStart == "kFrameTriggerPostedStart"
kFrameTriggerMax == "kFrameTriggerMax"
QSyncModes ==
  {kQSyncModeNone, kQSyncModeContinuous, kQsyncModeOneShot, kQsyncModeOneShotContinuous}

----------------------------------------------------------------------------
(* DisplayBuiltIn::Init, as a fold over a small machine state m:           *)
(*   trace    the operations on the hardware interface and on the          *)
(*            DisplayBase state, in program order                          *)
(*   error    the local variable `error`                                   *)
(*   returned TRUE once a return statement has been executed               *)

Append1(m, op) == [m EXCEPT !.trace = Append(@, op)]

InitMachine ==
  [trace |-> <<>>, error |-> kErrorNone, returned |-> FALSE,
   spr |-> "null", demura |-> "null", demura_result |-> "not_run",
   demura_status |-> FALSE, demura_intf_active |-> FALSE,
   demura_fetch |-> FALSE, demura_intended |-> FALSE]

\* lines 71-76
InitCreateHW(m, in) ==
  IF in.hw_create # kErrorNone
  THEN [m EXCEPT !.error = in.hw_create, !.returned = TRUE]
  ELSE [Append1(m, "hw.Create") EXCEPT !.error = kErrorNone]

\* lines 82-86; the composition manager reserves the demura fetch resources
\* for the display when it is registered and demura is enabled
InitBase(m, in) ==
  IF m.returned THEN m
  ELSE IF in.base_init # kErrorNone
  THEN [Append1(m, "hw.Destroy") EXCEPT !.error = in.base_init, !.returned = TRUE]
  ELSE [Append1(m, "base.Init") EXCEPT !.error = kErrorNone,
                                       !.demura_fetch = in.demura_hw]

\* lines 117-123: on failure the base state and the hardware interface are
\* released, and control falls through to line 125
InitCreateHWEvents(m, in) ==
  IF m.returned THEN m
  ELSE IF in.events_create # kErrorNone
  THEN [Append1(Append1(m, "base.Deinit"), "hw.Destroy")
          EXCEPT !.error = in.events_create]
  ELSE [Append1(m, "events.Create") EXCEPT !.error = kErrorNone]

\* lines 386-408
SetupSPR(in) ==
  IF in.spr_prop
  THEN IF ~in.spr_create THEN kErrorResources
       ELSE IF ~in.spr_init THEN kErrorResources
       ELSE kErrorNone
  ELSE kErrorNone

SetupSPRState(in) ==
  IF in.spr_prop
  THEN IF ~in.spr_create THEN "null"
       ELSE IF ~in.spr_init THEN "created" ELSE "inited"
  ELSE "null"

\* lines 144-149
InitSPR(m, in) ==
  IF m.returned \/ ~in.pf THEN m
  ELSE LET e == SetupSPR(in)
           m1 == [m EXCEPT !.error = e, !.spr = SetupSPRState(in)]
       IN IF e # kErrorNone
          THEN [Append1(Append1(m1, "base.Deinit"), "hw.Destroy")
                  EXCEPT !.returned = TRUE]
          ELSE m1

DemuraOutcomes ==
  {"status_off", "prop_disable", "prop_invalid", "create_fail", "init_fail",
   "layer_fail", "intf_fail", "ok"}

\* lines 410-470: the DisplayError SetupDemura returns
SetupDemuraResult(in) ==
  CASE in.demura \in {"status_off", "prop_disable", "ok"} -> kErrorNone
    [] in.demura = "create_fail" -> kErrorMemory
    [] OTHER -> kErrorUndefined

\* lines 410-470: the state SetupDemura leaves
SetupDemura(m, in) ==
  LET r == [m EXCEPT !.demura_result = SetupDemuraResult(in)] IN
  CASE in.demura \in {"status_off", "prop_disable"} ->
         [Append1(r, "base.use") EXCEPT !.demura_fetch = FALSE,
                                        !.demura_status = FALSE]
    [] in.demura = "prop_invalid" -> r
    [] in.demura = "create_fail" ->
         Append1(Append1(r, "hw.use"), "base.use")
    [] in.demura \in {"init_fail", "layer_fail", "intf_fail"} ->
         [Append1(Append1(r, "hw.use"), "base.use") EXCEPT !.demura = "created"]
    [] OTHER ->
         [Append1(Append1(r, "hw.use"), "base.use")
            EXCEPT !.demura = "created", !.demura_intf_active = TRUE,
                   !.demura_status = TRUE, !.demura_intended = TRUE]

InitDemuraFailureFatal(m) ==
  [Append1(Append1(m, "base.Deinit"), "hw.Destroy")
     EXCEPT !.error = m.demura_result, !.returned = TRUE]

\* lines 151-159: what Init does when SetupDemura has failed
InitDemuraFailure(m) ==
  [Append1(m, "base.use") EXCEPT !.demura_fetch = FALSE,
                                 !.demura_status = FALSE,
                                 !.demura_intf_active = FALSE]

\* lines 151-159
InitDemura(m, in) ==
  IF m.returned \/ ~in.pf THEN m
  ELSE LET m1 == SetupDemura(m, in)
       IN IF m1.demura_result # kErrorNone THEN InitDemuraFailure(m1) ELSE m1

\* lines 163-190: the properties are read and `error` is returned
InitTail(m, in) ==
  IF m.returned THEN m
  ELSE [m EXCEPT !.returned = TRUE]

\* lines 68-191
InitRun(in) ==
  InitTail(InitDemura(InitSPR(InitCreateHWEvents(InitBase(
    InitCreateHW(InitMachine, in), in), in), in), in), in)

----------------------------------------------------------------------------
(* Panel and property configuration read during Init (hw_panel_info_ from   *)
(* DisplayBase::Init, the debug properties of lines 129-184).               *)

PanelMinFps == 48
PanelMaxBrightness == 15

\* `float` values: binary floating-point numbers with MantissaBits significant
\* bits, held as fractions num/den whose den is a power of two.  Every
\* arithmetic operation rounds its exact result to the nearest such number,
\* ties to even.
MantissaBits == 10

RECURSIVE Pow2(_)
Pow2(k) == IF k = 0 THEN 1 ELSE 2 * Pow2(k - 1)

RECURSIVE Reduce(_)
Reduce(f) ==
  IF f.num = 0 THEN [num |-> 0, den |-> 1]
  ELSE IF f.den > 1 /\ f.num % 2 = 0
  THEN Reduce([num |-> f.num \div 2, den |-> f.den \div 2])
  ELSE f

Frac(n, dn) == Reduce([num |-> n, den |-> dn])
Zero == Frac(0, 1)
One == Frac(1, 1)
MinusOne == [num |-> -1, den |-> 1]

FLe(x, y) == x.num * y.den <= y.num * x.den
FLt(x, y) == x.num * y.den < y.num * x.den

\* the exponent j of n/dn > 0: 2^(j-1) <= n/dn < 2^j
RECURSIVE Exponent(_, _)
Exponent(n, dn) ==
  IF n >= dn THEN 1 + Exponent(n, 2 * dn)
  ELSE IF 2 * n < dn THEN Exponent(2 * n, dn) - 1
  ELSE 0

RoundHalfEven(a, b) ==
  LET q == a \div b
      r == a % b
  IN IF 2 * r < b THEN q
     ELSE IF 2 * r > b THEN q + 1
     ELSE IF q % 2 = 0 THEN q ELSE q + 1

\* n/dn >= 0 rounded to a float
Round(n, dn) ==
  IF n = 0 THEN Zero
  ELSE LET shift == MantissaBits - Exponent(n, dn)
       IN IF shift >= 0
          THEN Frac(RoundHalfEven(n * Pow2(shift), dn), Pow2(shift))
          ELSE Frac(RoundHalfEven(n, dn * Pow2(-shift)) * Pow2(-shift), 1)

\* float addition, subtraction (of a smaller from a larger value),
\* multiplication and division
CommonDen(x, y) == IF x.den >= y.den THEN x.den ELSE y.den
FAdd(x, y) ==
  LET c == CommonDen(x, y)
  IN Round(x.num * (c \div x.den) + y.num * (c \div y.den), c)
FSub(x, y) ==
  LET c == CommonDen(x, y)
  IN Round(x.num * (c \div x.den) - y.num * (c \div y.den), c)
FMul(x, y) == Round(x.num * y.num, x.den * y.den)
FDiv(x, y) == Round(x.num * y.den, x.den * y.num)

\* static_cast<int>(t) for t >= 0
ToInt(t) == t.num \div t.den
PanelMaxFps == 120

\* LayerRect; ZeroRect is the value-initialised rectangle `{}`
Rect(l, t, r, b) == [left |-> l, top |-> t, right |-> r, bottom |-> b]
ZeroRect == Rect(0, 0, 0, 0)

\* deferred_config_ as constructed: no deferral pending
DeferredConfigNew(frame_count) ==
  [frame_count |-> frame_count, frames_to_defer |-> 0, fps |-> 0,
   dirty |-> FALSE, apply |-> FALSE]

\* disp_layer_stack_ = DispLayerStack()
DispLayerStackNew ==
  [app_layer_count |-> 0, gpu_target_index |-> -1, stitch_target_index |-> -1,
   demura_target_index |-> -1, demura_present |-> FALSE,
   noise_layer_index |-> -1, noise_present |-> FALSE,
   left_frame_roi |-> <<>>, right_frame_roi |-> <<>>,
   hw_layers |-> <<>>, index |-> <<>>,
   hw_avr_info |-> [update |-> FALSE, mode |-> "kQsyncNone"]]

\* the members of a constructed DisplayBuiltIn
Constructed ==
  [hw_panel_info_ |-> [mode |-> kModeVideo, dynamic_fps |-> FALSE,
                       qsync_support |-> FALSE, partial_update |-> FALSE,
                       left_roi_count |-> 1,
                       min_fps |-> PanelMinFps, max_fps |-> PanelMaxFps,
                       panel_min_brightness |-> 0,
                       panel_max_brightness |-> PanelMaxBrightness],
   display_attributes_ |-> [fps |-> PanelMaxFps],
   active_ |-> FALSE,
   phase |-> "idle",
   validated_ |-> FALSE,
   needs_validate_ |-> FALSE,
   partial_update_control_ |-> TRUE,
   disable_pu_one_frame_ |-> FALSE,
   disable_pu_on_dest_scaler_ |-> FALSE,
   handle_idle_timeout_ |-> FALSE,
   qsync_mode_ |-> kQSyncModeNone,
   active_qsync_mode_ |-> kQSyncModeNone,
   needs_avr_update_ |-> FALSE,
   first_cycle_ |-> TRUE,
   enable_qsync_idle_ |-> FALSE,
   enhance_idle_time_ |-> FALSE,
   disable_dyn_fps_ |-> FALSE,
   current_refresh_rate_ |-> 0,
   deferred_config_ |-> DeferredConfigNew(0),
   left_frame_roi_ |-> ZeroRect,
   right_frame_roi_ |-> ZeroRect,
   disp_layer_stack_ |-> DispLayerStackNew,
   spr_ |-> FALSE,
   demura_status |-> FALSE,
   demura_intended_ |-> FALSE,
   demura_layer_fd |-> 0,
   level_remainder_ |-> Zero,
   cached_brightness_ |-> Zero,
   pending_brightness_ |-> FALSE,
   dpps_pu_nofiy_pending_ |-> FALSE,
   last_panel_mode_ |-> kModeDefault,
   switch_to_cmd_ |-> FALSE,
   trigger_mode_debug_ |-> kFrameTriggerMax,
   vsync_enable_ |-> FALSE,
   pending_vsync_enable_ |-> FALSE,
   reset_panel_ |-> FALSE]

\* the collaborators' state the orchestrator drives: the panel's rate, panel
\* information and backlight level in the driver, the vsync subscription of
\* the hardware events interface, and the composition manager's idle timeout
\* ("initial", "property" for the values of Debug::GetIdleTimeoutMs, or
\* "zero")
HardwareNew(panel, fps, level) ==
  [fps |-> fps, panel |-> panel, level |-> level, vsync |-> FALSE,
   idle_timeout |-> "initial"]

\* lines 125-184: the members Init assigns, from the panel information that
\* DisplayBase::Init has read and from the properties
InitMembers(in, m) ==
  [Constructed EXCEPT
     !.hw_panel_info_ = in.cfg.panel,
     !.display_attributes_ = [fps |-> in.cfg.panel.max_fps],
     !.active_ = TRUE,
     !.current_refresh_rate_ = in.cfg.panel.max_fps,
     !.deferred_config_ = DeferredConfigNew(in.cfg.defer_fps_frame_count),
     !.disable_dyn_fps_ = in.cfg.disable_dynamic_fps,
     !.enable_qsync_idle_ = in.cfg.panel.qsync_support /\ in.cfg.enable_qsync_idle,
     !.enhance_idle_time_ = in.cfg.enhance_idle_time,
     !.disable_pu_on_dest_scaler_ = in.cfg.dest_scaler,
     !.spr_ = (m.spr = "inited"),
     !.demura_status = m.demura_status,
     !.demura_intended_ = m.demura_intended,
     !.demura_layer_fd = IF m.demura_status THEN 1 ELSE 0]

NoOp == [op |-> "none"]

\* DisplayBuiltIn::Init (lines 68-191) for one choice of the collaborators'
\* outcomes
Init_(in) ==
  /\ ~init.done
  /\ LET m == InitRun(in)
     IN /\ init' = [done |-> TRUE, in |-> in, result |-> m.error, m |-> m]
        /\ d' = IF m.error = kErrorNone /\ "base.Init" \in
                     {m.trace[i] : i \in DOMAIN m.trace}
                THEN InitMembers(in, m) ELSE d
        /\ hw' = HardwareNew(in.cfg.panel, in.cfg.panel.max_fps,
                              in.cfg.panel.panel_max_brightness)
        /\ last' = [op |-> "Init"]
        /\ UNCHANGED <<call, pc, dpps, res>>

----------------------------------------------------------------------------
(* Prepare and its fast path.                                               *)
(*                                                                          *)
(* A layer stack ls is                                                      *)
(*   layers          sequence of [composition, update_mask, ndirty, damage, *)
(*                   is_noise];                                             *)
(*                   update_mask is the set of LayerUpdate bits that are    *)
(*                   set, ndirty the size of dirty_regions                  *)
(*   flags           geometry_changed, skip_present, stitch_present,        *)
(*                   demura_present                                         *)
(*   needs_validate                                                         *)
(* and env holds what the collaborators answer during the call:             *)
(*   safe_mode        comp_manager_->IsSafeMode()                           *)
(*   mixer_reconfig   NeedsMixerReconfiguration()                           *)
(*   color_pu_disable color_mgr_->NeedsPartialUpdateDisable()               *)
(*   base_preprepare  DisplayBase::PrePrepare()                             *)
(*   spr_ok           spr_->GetParameter() succeeds                         *)
(*   prepare          the allocator's answer to a full validation           *)
(*   roi              the frame ROI the allocator computes for this input   *)

kSurfaceDamage == "kSurfaceDamage"
kMetadataUpdate == "kMetadataUpdate"

kCompositionGPU == "kCompositionGPU"
kCompositionSDE == "kCompositionSDE"
kCompositionGPUTarget == "kCompositionGPUTarget"
kCompositionStitchTarget == "kCompositionStitchTarget"
kCompositionDemura == "kCompositionDemura"

\* demura_layer_ as SetupDemuraLayer leaves it (lines 485-510)
demura_layer_ ==
  [composition |-> kCompositionDemura, update_mask |-> {}, ndirty |-> 0, damage |-> 0,
   is_noise |-> FALSE]

\* utils/rect: two rectangles are congruent when every coordinate differs
\* by less than the tolerance, which for integral coordinates is equality
IsCongruent(a, b) ==
  /\ a.left = b.left /\ a.top = b.top
  /\ a.right = b.right /\ a.bottom = b.bottom

\* a null LayerStack pointer
NullStack == [null |-> TRUE]

\* HandleDemuraLayer without the stores to needs_validate_
HandleDemuraLayerQuiet(dd, ls) ==
  IF ls = NullStack
  THEN [error |-> kErrorParameters, d |-> dd, ls |-> ls]
  ELSE IF dd.demura_status /\ dd.demura_layer_fd > 0
  THEN [error |-> kErrorNone, d |-> dd,
        ls |-> [ls EXCEPT !.layers = Append(@, demura_layer_)]]
  ELSE IF dd.disp_layer_stack_.demura_target_index # -1
  THEN [error |-> kErrorNone,
        d |-> [dd EXCEPT !.disp_layer_stack_.demura_present = FALSE],
        ls |-> ls]
  ELSE [error |-> kErrorNone, d |-> dd, ls |-> ls]

\* lines 1831-1855
HandleDemuraLayer(dd, ls) ==
  IF ls = NullStack
  THEN [error |-> kErrorParameters, d |-> dd, ls |-> ls]
  ELSE IF dd.demura_status /\ dd.demura_layer_fd > 0
  THEN [error |-> kErrorNone,
        d |-> IF dd.disp_layer_stack_.demura_target_index = -1
              THEN [dd EXCEPT !.needs_validate_ = TRUE] ELSE dd,
        ls |-> [ls EXCEPT !.layers = Append(@, demura_layer_)]]
  ELSE IF dd.disp_layer_stack_.demura_target_index # -1
  THEN [error |-> kErrorNone,
        d |-> [dd EXCEPT !.needs_validate_ = TRUE,
                         !.disp_layer_stack_.demura_present = FALSE],
        ls |-> ls]
  ELSE [error |-> kErrorNone, d |-> dd, ls |-> ls]

\* lines 1741-1745
StackFudgeFactor(ls) ==
  1 + (IF ls.flags.stitch_present THEN 1 ELSE 0)
    + (IF ls.flags.demura_present THEN 1 ELSE 0)

OnlySurfaceDamageMaskBit(ls) ==
  \E i \in DOMAIN ls.layers : kSurfaceDamage \in ls.layers[i].update_mask

\* lines 1763-1778: every layer's update mask is empty or exactly the
\* surface-damage bit, and at least one layer reports surface damage
OnlySurfaceDamage(ls) ==
  /\ \A i \in DOMAIN ls.layers :
       ls.layers[i].update_mask = {} \/ ls.layers[i].update_mask = {kSurfaceDamage}
  /\ \E i \in DOMAIN ls.layers : ls.layers[i].update_mask = {kSurfaceDamage}

CompareFrameROIChecks1NoSafeMode(dd, ls, env) ==
  /\ ~(dd.needs_validate_ \/ ls.needs_validate)
  /\ ~(\/ ~dd.hw_panel_info_.partial_update
       \/ dd.hw_panel_info_.left_roi_count # 1
       \/ ls.flags.geometry_changed
       \/ ls.flags.skip_present
       \/ Len(ls.layers) # dd.disp_layer_stack_.app_layer_count + StackFudgeFactor(ls))

\* lines 1736-1753: the checks before the partial-update disable check
CompareFrameROIChecks1(dd, ls, env) ==
  /\ ~(dd.needs_validate_ \/ env.safe_mode \/ ls.needs_validate)
  /\ ~(\/ ~dd.hw_panel_info_.partial_update
       \/ dd.hw_panel_info_.left_roi_count # 1
       \/ ls.flags.geometry_changed
       \/ ls.flags.skip_present
       \/ Len(ls.layers) # dd.disp_layer_stack_.app_layer_count + StackFudgeFactor(ls))

\* lines 1755-1757: the members after the partial-update disable check,
\* which is reached only when the checks before it pass
CompareFrameROIState(dd, ls, env) ==
  IF CompareFrameROIChecks1(dd, ls, env) /\ env.color_pu_disable
  THEN [dd EXCEPT !.disable_pu_one_frame_ = TRUE] ELSE dd

\* lines 1734-1779
CanCompareFrameROI(dd, ls, env) ==
  /\ CompareFrameROIChecks1(dd, ls, env)
  /\ LET d1 == CompareFrameROIState(dd, ls, env)
     IN ~(~d1.partial_update_control_ \/ d1.disable_pu_one_frame_
            \/ d1.disable_pu_on_dest_scaler_)
  /\ OnlySurfaceDamage(ls)

\* lines 1786-1789: the ROI lists after comp_manager_->GenerateROI
GenerateROI(dd, env) ==
  [dd EXCEPT !.disp_layer_stack_.left_frame_roi = env.roi.left,
             !.disp_layer_stack_.right_frame_roi = env.roi.right]

SameROISwapped(dd) ==
  /\ IsCongruent(dd.left_frame_roi_, dd.disp_layer_stack_.right_frame_roi[1])
  /\ IsCongruent(dd.right_frame_roi_, dd.disp_layer_stack_.left_frame_roi[1])

\* lines 1797-1798
SameROI(dd) ==
  /\ IsCongruent(dd.left_frame_roi_, dd.disp_layer_stack_.left_frame_roi[1])
  /\ IsCongruent(dd.right_frame_roi_, dd.disp_layer_stack_.right_frame_roi[1])

\* lines 1802-1812: some hardware layer has another number of dirty regions
\* than the layer it was built from
DirtyRegionsDiffer(dd, ls) ==
  \E j \in DOMAIN dd.disp_layer_stack_.hw_layers :
    dd.disp_layer_stack_.hw_layers[j].ndirty
      # ls.layers[dd.disp_layer_stack_.index[j]].ndirty

\* the hardware layers before the first one whose number of dirty regions
\* differs from its layer's
BeforeMismatch(dd, ls) ==
  {j \in DOMAIN dd.disp_layer_stack_.hw_layers :
     \A k \in 1..j :
       dd.disp_layer_stack_.hw_layers[k].ndirty
         = ls.layers[dd.disp_layer_stack_.index[k]].ndirty}

\* the loop without the assignment of line 1810
CopyDirtyRegionsNone(dd, ls) == dd

\* lines 1802-1812: the dirty regions of the submitted layers are copied
\* onto the hardware layers, up to the first mismatch of their numbers
CopyDirtyRegions(dd, ls) ==
  [dd EXCEPT !.disp_layer_stack_.hw_layers =
     [j \in DOMAIN @ |->
        IF j \in BeforeMismatch(dd, ls)
        THEN [@[j] EXCEPT !.damage = ls.layers[dd.disp_layer_stack_.index[j]].damage]
        ELSE @[j]]]

\* lines 1815-1825
MarkSDE(dd, ls) ==
  LET size_ff == StackFudgeFactor(ls)
                   + (IF dd.disp_layer_stack_.noise_present THEN 1 ELSE 0)
      n == Len(ls.layers) - size_ff
  IN [ls EXCEPT !.layers =
        [i \in DOMAIN ls.layers |->
           IF i <= n THEN [ls.layers[i] EXCEPT !.composition = kCompositionSDE]
           ELSE ls.layers[i]]]

\* lines 1781-1829: result, members, layer stack and allocator calls
CanSkipDisplayPrepare(dd, ls, env) ==
  IF ~CanCompareFrameROI(dd, ls, env)
  THEN [skip |-> FALSE, d |-> CompareFrameROIState(dd, ls, env), ls |-> ls,
        calls |-> <<>>]
  ELSE LET d1 == GenerateROI(CompareFrameROIState(dd, ls, env), env)
           calls == <<"comp.GenerateROI">>
       IN IF Len(d1.disp_layer_stack_.left_frame_roi) = 0
             \/ Len(d1.disp_layer_stack_.right_frame_roi) = 0
          THEN [skip |-> FALSE, d |-> d1, ls |-> ls, calls |-> calls]
          ELSE IF ~SameROI(d1)
          THEN [skip |-> FALSE, d |-> d1, ls |-> ls, calls |-> calls]
          ELSE IF DirtyRegionsDiffer(d1, ls)
          THEN [skip |-> FALSE, d |-> CopyDirtyRegions(d1, ls), ls |-> ls,
                calls |-> calls]
          ELSE [skip |-> TRUE, d |-> CopyDirtyRegions(d1, ls),
                ls |-> MarkSDE(d1, ls), calls |-> calls]

\* lines 332-344
GetAvrMode(mode) ==
  CASE mode = kQSyncModeNone -> "kQsyncNone"
    [] mode = kQSyncModeContinuous -> "kContinuousMode"
    [] mode \in {kQsyncModeOneShot, kQsyncModeOneShotContinuous} -> "kOneShotMode"
    [] OTHER -> "kQsyncNone"

UpdateQsyncModeAnyIdle(dd) ==
  IF ~dd.hw_panel_info_.qsync_support \/ dd.hw_panel_info_.mode = kModeCommand
  THEN dd
  ELSE LET mode == IF dd.handle_idle_timeout_
                   THEN kQSyncModeContinuous ELSE dd.qsync_mode_
       IN [dd EXCEPT
             !.disp_layer_stack_.hw_avr_info =
                [update |-> (mode # dd.active_qsync_mode_) \/ dd.needs_avr_update_,
                 mode |-> GetAvrMode(mode)],
             !.active_qsync_mode_ = mode]

\* lines 307-330
UpdateQsyncMode(dd) ==
  IF ~dd.hw_panel_info_.qsync_support \/ dd.hw_panel_info_.mode = kModeCommand
  THEN dd
  ELSE LET mode == IF dd.handle_idle_timeout_ /\ dd.enable_qsync_idle_
                   THEN kQSyncModeContinuous ELSE dd.qsync_mode_
       IN [dd EXCEPT
             !.disp_layer_stack_.hw_avr_info =
                [update |-> (mode # dd.active_qsync_mode_) \/ dd.needs_avr_update_,
                 mode |-> GetAvrMode(mode)],
             !.active_qsync_mode_ = mode]

\* lines 212-242: error, members, layer stack and allocator calls
PrePrepare(dd, ls, env) ==
  LET h == HandleDemuraLayer(dd, ls) IN
  IF h.error # kErrorNone
  THEN [error |-> h.error, d |-> h.d, ls |-> h.ls, calls |-> <<>>]
  ELSE IF env.base_preprepare = kErrorNone
  THEN [error |-> kErrorNone, d |-> h.d, ls |-> h.ls, calls |-> <<>>]
  ELSE IF env.mixer_reconfig
  THEN [error |-> kErrorNotValidated, d |-> h.d, ls |-> h.ls,
        calls |-> <<"ReconfigureMixer">>]
  ELSE LET c == CanSkipDisplayPrepare(h.d, h.ls, env)
       IN IF c.skip
          THEN [error |-> kErrorNone, d |-> UpdateQsyncMode(c.d), ls |-> c.ls,
                calls |-> c.calls]
          ELSE [error |-> kErrorNotValidated, d |-> c.d, ls |-> c.ls,
                calls |-> c.calls]

kErrorNoAppLayers == "kErrorNoAppLayers"

SyntheticCompositions ==
  {kCompositionGPUTarget, kCompositionStitchTarget, kCompositionDemura}

\* the zero-based index of the last layer of composition c, or -1
TargetIndex(ls, c) ==
  LET S == {i \in DOMAIN ls.layers : ls.layers[i].composition = c}
  IN IF S = {} THEN -1 ELSE (CHOOSE i \in S : \A j \in S : j <= i) - 1

\* NoiseLayers with the is_noise test made for every layer
NoiseLayersAnyComposition(ls) ==
  {i \in DOMAIN ls.layers : ls.layers[i].is_noise}

\* line 1886: the layers that reach the is_noise test and pass it
NoiseLayers(ls) ==
  {i \in DOMAIN ls.layers :
     /\ ls.layers[i].composition \notin SyntheticCompositions
     /\ ls.layers[i].is_noise}

\* the zero-based index of the last layer of S, or -1
LastIndex(S) ==
  IF S = {} THEN -1 ELSE (CHOOSE i \in S : \A j \in S : j <= i) - 1

\* line 1892: the layers that reach the last else
AppLayers(ls) ==
  {i \in DOMAIN ls.layers :
     /\ ls.layers[i].composition \notin SyntheticCompositions
     /\ ~ls.layers[i].is_noise}

\* lines 1857-1923; ValidateGPUTargetParams is taken to succeed, and the
\* submitted flags are taken not to say noise_present
BuildLayerStackStats(dd, ls) ==
  LET stitch == TargetIndex(ls, kCompositionStitchTarget)
      demura == TargetIndex(ls, kCompositionDemura)
      noise == LastIndex(NoiseLayers(ls))
      count == Cardinality(AppLayers(ls))
  IN [error |-> IF count = 0 THEN kErrorNoAppLayers ELSE kErrorNone,
      d |-> [dd EXCEPT
               !.disp_layer_stack_.app_layer_count = count,
               !.disp_layer_stack_.gpu_target_index =
                  TargetIndex(ls, kCompositionGPUTarget),
               !.disp_layer_stack_.stitch_target_index = stitch,
               !.disp_layer_stack_.demura_target_index = demura,
               !.disp_layer_stack_.noise_layer_index = noise,
               !.disp_layer_stack_.noise_present = (noise # -1),
               !.disp_layer_stack_.demura_present = (demura # -1) \/ @],
      ls |-> [ls EXCEPT !.flags.stitch_present = (stitch # -1) \/ @,
                        !.flags.demura_present = (demura # -1) \/ @]]

\* the sequence of the elements of the set S of integers, ascending
RECURSIVE SortedSeq(_)
SortedSeq(S) ==
  IF S = {} THEN <<>>
  ELSE LET m == CHOOSE x \in S : \A y \in S : x <= y
       IN <<m>> \o SortedSeq(S \ {m})

\* DisplayBase::Prepare: a validation is pending until it succeeds; the
\* layer-stack statistics are built, the allocator assigns the pipes and
\* leaves the frame ROI and the hardware layers in disp_layer_stack_
BasePrepare(dd, ls, env) ==
  LET st == BuildLayerStackStats([dd EXCEPT !.needs_validate_ = TRUE], ls)
      idx == SortedSeq(AppLayers(st.ls))
  IN IF st.error # kErrorNone
     THEN [error |-> st.error, d |-> st.d, ls |-> st.ls, calls |-> <<>>]
     ELSE IF env.prepare # kErrorNone
     THEN [error |-> env.prepare, d |-> st.d, ls |-> st.ls,
           calls |-> <<"comp.Prepare">>]
     ELSE [error |-> kErrorNone,
           d |-> [st.d EXCEPT
                    !.disp_layer_stack_.left_frame_roi = env.roi.left,
                    !.disp_layer_stack_.right_frame_roi = env.roi.right,
                    !.disp_layer_stack_.index = idx,
                    !.disp_layer_stack_.hw_layers =
                       [j \in DOMAIN idx |->
                          [ndirty |-> st.ls.layers[idx[j]].ndirty,
                           damage |-> st.ls.layers[idx[j]].damage]],
                    !.needs_validate_ = FALSE,
                    !.validated_ = TRUE],
           ls |-> st.ls, calls |-> <<"comp.Prepare">>]

CacheFrameROIKeepOld(dd) ==
  IF Len(dd.disp_layer_stack_.left_frame_roi) > 0
     /\ Len(dd.disp_layer_stack_.right_frame_roi) > 0
  THEN [dd EXCEPT !.left_frame_roi_ = dd.disp_layer_stack_.left_frame_roi[1],
                  !.right_frame_roi_ = dd.disp_layer_stack_.right_frame_roi[1]]
  ELSE dd

\* lines 295-305
CacheFrameROI(dd) ==
  IF Len(dd.disp_layer_stack_.left_frame_roi) > 0
     /\ Len(dd.disp_layer_stack_.right_frame_roi) > 0
  THEN [dd EXCEPT !.left_frame_roi_ = dd.disp_layer_stack_.left_frame_roi[1],
                  !.right_frame_roi_ = dd.disp_layer_stack_.right_frame_roi[1]]
  ELSE [dd EXCEPT !.left_frame_roi_ = ZeroRect, !.right_frame_roi_ = ZeroRect]

\* lines 244-264
HandleSPR(dd, env) ==
  IF dd.spr_ /\ ~env.spr_ok
  THEN [error |-> kErrorUndefined, d |-> [dd EXCEPT !.validated_ = FALSE]]
  ELSE [error |-> kErrorNone, d |-> dd]

\* lines 266-293: error, whether full validation was skipped, members,
\* layer stack and allocator calls
Prepare(dd, ls, env) ==
  LET p == PrePrepare(dd, ls, env) IN
  IF p.error = kErrorNone
  THEN [error |-> kErrorNone, skipped |-> TRUE, d |-> p.d, ls |-> p.ls,
        calls |-> p.calls]
  ELSE
    LET d1 == [p.d EXCEPT !.disp_layer_stack_ = DispLayerStackNew]
        h == HandleSPR(d1, env)
    IN IF h.error # kErrorNone
       THEN [error |-> h.error, skipped |-> FALSE, d |-> h.d, ls |-> p.ls,
             calls |-> p.calls]
       ELSE LET b == BasePrepare(h.d, p.ls, env)
            IN IF b.error # kErrorNone
               THEN [error |-> b.error, skipped |-> FALSE, d |-> b.d, ls |-> b.ls,
                     calls |-> p.calls \o b.calls]
               ELSE [error |-> kErrorNone, skipped |-> FALSE,
                     d |-> CacheFrameROI(UpdateQsyncMode(b.d)), ls |-> b.ls,
                     calls |-> p.calls \o b.calls]

----------------------------------------------------------------------------
(* The deferred fps configuration (deferred_config_).                       *)

\* DeferFpsConfig::Init
DeferInit(dc, fps) ==
  [dc EXCEPT !.fps = fps, !.frames_to_defer = dc.frame_count,
             !.dirty = FALSE, !.apply = FALSE]

\* DeferFpsConfig::Clear
DeferClear(dc) ==
  [dc EXCEPT !.frames_to_defer = 0, !.dirty = FALSE, !.apply = FALSE]

\* DeferFpsConfig::IsDeferredState
IsDeferredState(dc) == dc.frames_to_defer # 0

CanApplyDeferredStateWhenDirty(dc) == dc.apply /\ dc.dirty

\* DeferFpsConfig::CanApplyDeferredState
CanApplyDeferredState(dc) == dc.apply

\* MarkDirty setting the flag outside the deferred state too
MarkDirtyAlways(dc) == [dc EXCEPT !.dirty = TRUE]

\* DeferFpsConfig::MarkDirty
MarkDirty(dc) == [dc EXCEPT !.dirty = IsDeferredState(dc)]

UpdateDeferCountNoApply(dc) ==
  IF dc.frames_to_defer > 0
  THEN [dc EXCEPT !.frames_to_defer = @ - 1]
  ELSE dc

\* DeferFpsConfig::UpdateDeferCount
UpdateDeferCount(dc) ==
  IF dc.frames_to_defer > 0
  THEN [dc EXCEPT !.frames_to_defer = @ - 1, !.apply = (dc.frames_to_defer - 1 = 0)]
  ELSE dc

\* lines 2035-2041
SetDeferredFpsConfig(dd) ==
  [dd EXCEPT !.display_attributes_.fps = dd.deferred_config_.fps,
             !.deferred_config_ = DeferClear(dd.deferred_config_)]

\* CanDeferFpsConfig deferring an fps equal to the one of the display too
CanDeferFpsConfigNotHigher(dd, fps) ==
  IF CanApplyDeferredState(dd.deferred_config_) THEN FALSE
  ELSE dd.deferred_config_.frame_count # 0 /\ dd.display_attributes_.fps >= fps

\* lines 2024-2033
CanDeferFpsConfig(dd, fps) ==
  IF CanApplyDeferredState(dd.deferred_config_) THEN FALSE
  ELSE dd.deferred_config_.frame_count # 0 /\ dd.display_attributes_.fps > fps

\* HWDisplayAttributes::OnlyFpsChanged, with the fps as the only attribute
\* that varies
OnlyFpsChanged(cur, new) == cur.fps # new.fps

\* lines 1930-2022.  env.hw_query is the outcome of the four hardware
\* queries, env.comp_reconfig that of comp_manager_->ReconfigureDisplay.
\* The hardware reports the fps it runs at and the panel information hwst.panel.
ReconfigureDisplay(dd, hwst, env) ==
  IF env.hw_query # kErrorNone
  THEN [error |-> env.hw_query, d |-> dd, calls |-> <<>>]
  ELSE
    LET dirty == dd.deferred_config_.dirty
        deferred == IsDeferredState(dd.deferred_config_)
        d1 == IF deferred /\ dirty THEN SetDeferredFpsConfig(dd) ELSE dd
        attrs0 == IF deferred /\ ~dirty
                  THEN [fps |-> dd.display_attributes_.fps]
                  ELSE [fps |-> hwst.fps]
        display_unchanged == (attrs0 = d1.display_attributes_)
        panel_unchanged == (hwst.panel = d1.hw_panel_info_)
    IN IF ~dirty /\ display_unchanged /\ panel_unchanged
       THEN [error |-> kErrorNone, d |-> d1, calls |-> <<>>]
       ELSE
         LET defer == CanDeferFpsConfig(d1, attrs0.fps)
             d2 == IF defer
                   THEN [d1 EXCEPT !.deferred_config_ = DeferInit(@, attrs0.fps)]
                   ELSE d1
             attrs == IF defer THEN [fps |-> d1.display_attributes_.fps] ELSE attrs0
         IN IF env.comp_reconfig # kErrorNone
            THEN [error |-> env.comp_reconfig, d |-> d2,
                  calls |-> <<"comp.ReconfigureDisplay">>]
            ELSE
              LET disble_pu == IF panel_unchanged
                               THEN ~OnlyFpsChanged(d2.display_attributes_, attrs)
                               ELSE TRUE
              IN [error |-> kErrorNone,
                  d |-> [d2 EXCEPT
                           !.disable_pu_one_frame_ = disble_pu \/ @,
                           !.display_attributes_ = attrs,
                           !.hw_panel_info_ = hwst.panel],
                  calls |-> <<"comp.ReconfigureDisplay">>]

----------------------------------------------------------------------------
(* SetRefreshRate.                                                          *)

\* lines 879-895; env.elapsed: the idle time has elapsed since the last
\* PostCommit (elapsed_time_ms >= idle_time_ms_)
CanLowerFps(dd, idle_screen, env) ==
  IF ~dd.enhance_idle_time_ THEN dd.handle_idle_timeout_
  ELSE IF ~dd.handle_idle_timeout_ \/ ~idle_screen THEN FALSE
  ELSE env.elapsed

SetRefreshRateTargetNoFinal(dd, refresh_rate, final_rate, idle_screen, env) ==
  IF CanLowerFps(dd, idle_screen, env) /\ ~dd.enable_qsync_idle_
  THEN dd.hw_panel_info_.min_fps ELSE refresh_rate

\* lines 848-850: the rate SetRefreshRate goes on with
SetRefreshRateTarget(dd, refresh_rate, final_rate, idle_screen, env) ==
  IF CanLowerFps(dd, idle_screen, env) /\ ~final_rate /\ ~dd.enable_qsync_idle_
  THEN dd.hw_panel_info_.min_fps ELSE refresh_rate

SetRefreshRateRejectedActiveMode(dd, refresh_rate) ==
  IF ~dd.active_ \/ ~dd.hw_panel_info_.dynamic_fps
     \/ dd.active_qsync_mode_ # kQSyncModeNone \/ dd.disable_dyn_fps_
  THEN kErrorNotSupported
  ELSE IF refresh_rate < dd.hw_panel_info_.min_fps
          \/ refresh_rate > dd.hw_panel_info_.max_fps
  THEN kErrorParameters
  ELSE kErrorNone

\* lines 838-846: the error the argument checks give, kErrorNone when they pass
SetRefreshRateRejected(dd, refresh_rate) ==
  IF ~dd.active_ \/ ~dd.hw_panel_info_.dynamic_fps
     \/ dd.qsync_mode_ # kQSyncModeNone \/ dd.disable_dyn_fps_
  THEN kErrorNotSupported
  ELSE IF refresh_rate < dd.hw_panel_info_.min_fps
          \/ refresh_rate > dd.hw_panel_info_.max_fps
  THEN kErrorParameters
  ELSE kErrorNone

SetRefreshRateApplySkipReconfigure(dd, hwst, rate, env, calls) ==
  IF dd.current_refresh_rate_ = rate
  THEN [error |-> kErrorNone, d |-> dd, hw |-> hwst, calls |-> calls]
  ELSE LET r == ReconfigureDisplay(
                  [dd EXCEPT !.current_refresh_rate_ = rate,
                             !.deferred_config_ = MarkDirty(@)], hwst, env)
       IN [error |-> r.error, d |-> r.d, hw |-> hwst, calls |-> calls \o r.calls]

\* lines 867-876: the rate is recorded, the deferred configuration is marked
\* dirty and the display is reconfigured
SetRefreshRateApply(dd, hwst, rate, env, calls) ==
  LET idle == dd.enhance_idle_time_ /\ dd.handle_idle_timeout_
                /\ rate = dd.hw_panel_info_.min_fps
      c1 == IF idle THEN calls \o <<"comp.ProcessIdleTimeout">> ELSE calls
      r == ReconfigureDisplay(
             [dd EXCEPT !.current_refresh_rate_ = rate,
                        !.deferred_config_ = MarkDirty(@)], hwst, env)
  IN [error |-> r.error, d |-> r.d, hw |-> hwst, calls |-> c1 \o r.calls]

\* lines 834-877: error, members, hardware and the calls made
SetRefreshRate(dd, hwst, refresh_rate, final_rate, idle_screen, env) ==
  LET rej == SetRefreshRateRejected(dd, refresh_rate) IN
  IF rej # kErrorNone
  THEN [error |-> rej, d |-> dd, hw |-> hwst, calls |-> <<>>]
  ELSE
    LET rate == SetRefreshRateTarget(dd, refresh_rate, final_rate, idle_screen, env)
    IN IF dd.current_refresh_rate_ # rate
       THEN IF env.hw_set # kErrorNone
            THEN [error |-> env.hw_set,
                  d |-> [dd EXCEPT !.handle_idle_timeout_ = FALSE],
                  hw |-> hwst, calls |-> <<"hw.SetRefreshRate">>]
            ELSE IF env.enforce_split # kErrorNone
            THEN [error |-> env.enforce_split, d |-> dd,
                  hw |-> [hwst EXCEPT !.fps = rate],
                  calls |-> <<"hw.SetRefreshRate", "comp.CheckEnforceSplit">>]
            ELSE SetRefreshRateApply(dd, [hwst EXCEPT !.fps = rate], rate, env,
                                     <<"hw.SetRefreshRate", "comp.CheckEnforceSplit">>)
       ELSE SetRefreshRateApply(dd, hwst, rate, env, <<>>)

\* the fps of the hardware's configuration `index`
ConfigFps(dd, index) ==
  IF index = 0 THEN dd.hw_panel_info_.max_fps ELSE dd.hw_panel_info_.min_fps

\* DisplayBase::SetActiveConfig: the hardware takes the configuration, or
\* answers env.hw_set, and the display is reconfigured
BaseSetActiveConfig(dd, hwst, index, env) ==
  IF env.hw_set # kErrorNone
  THEN [error |-> env.hw_set, d |-> dd, hw |-> hwst,
        calls |-> <<"hw.SetDisplayAttributes">>]
  ELSE LET hw1 == [hwst EXCEPT !.fps = ConfigFps(dd, index)]
           Result(r) ==
             [error |-> r.error, d |-> r.d, hw |-> hw1,
              calls |-> <<"hw.SetDisplayAttributes">> \o r.calls]
       IN Result(ReconfigureDisplay(dd, hw1, env))

\* lines 1925-1928
SetActiveConfig(dd, hwst, index, env) ==
  BaseSetActiveConfig([dd EXCEPT !.deferred_config_ = MarkDirty(@)],
                      hwst, index, env)

----------------------------------------------------------------------------
(* Panel brightness.                                                        *)

kErrorDeferred == "kErrorDeferred"
kErrorDriverData == "kErrorDriverData"

\* lines 776-817; status is the answer of hw_intf_->SetPanelBrightness
SetPanelBrightness(dd, hwst, brightness, status) ==
  IF brightness # MinusOne /\ ~(FLe(Zero, brightness) /\ FLe(brightness, One))
  THEN [error |-> kErrorParameters, d |-> dd, hw |-> hwst, calls |-> <<>>]
  ELSE
    LET max == Frac(dd.hw_panel_info_.panel_max_brightness, 1)
        min == Frac(dd.hw_panel_info_.panel_min_brightness, 1)
    IN IF brightness # MinusOne /\ FLe(max, min)
       THEN [error |-> kErrorDriverData, d |-> dd, hw |-> hwst, calls |-> <<>>]
       ELSE
         LET t == IF brightness = MinusOne THEN Zero
                  ELSE FAdd(FMul(brightness, FSub(max, min)), min)
             level == ToInt(t)
             level_remainder == IF brightness = MinusOne THEN Zero
                                ELSE FSub(t, Frac(level, 1))
         IN IF status = kErrorNone
            THEN [error |-> kErrorNone,
                  d |-> [dd EXCEPT !.level_remainder_ = level_remainder],
                  hw |-> [hwst EXCEPT !.level = level],
                  calls |-> <<"hw.SetPanelBrightness">>]
            ELSE IF status = kErrorDeferred
            THEN [error |-> kErrorNone,
                  d |-> [dd EXCEPT !.cached_brightness_ = brightness,
                                   !.pending_brightness_ = TRUE],
                  hw |-> hwst, calls |-> <<"hw.SetPanelBrightness">>]
            ELSE [error |-> status, d |-> dd, hw |-> hwst,
                  calls |-> <<"hw.SetPanelBrightness">>]

GetPanelBrightnessFromLevelNoRemainder(dd, level) ==
  LET max == Frac(dd.hw_panel_info_.panel_max_brightness, 1)
      min == Frac(dd.hw_panel_info_.panel_min_brightness, 1)
  IN IF level = Zero
     THEN [error |-> kErrorNone, brightness |-> MinusOne]
     ELSE IF FLt(min, max) /\ FLe(min, level) /\ FLe(level, max)
     THEN [error |-> kErrorNone,
           brightness |-> FDiv(FSub(level, min), FSub(max, min))]
     ELSE [error |-> kErrorDriverData, brightness |-> Zero]

\* lines 1029-1047; level is a float
GetPanelBrightnessFromLevel(dd, level) ==
  LET max == Frac(dd.hw_panel_info_.panel_max_brightness, 1)
      min == Frac(dd.hw_panel_info_.panel_min_brightness, 1)
  IN IF level = Zero
     THEN [error |-> kErrorNone, brightness |-> MinusOne]
     ELSE IF FLt(min, max) /\ FLe(min, level) /\ FLe(level, max)
     THEN [error |-> kErrorNone,
           brightness |-> FDiv(FSub(FAdd(level, dd.level_remainder_), min),
                               FSub(max, min))]
     ELSE [error |-> kErrorDriverData, brightness |-> Zero]

\* lines 1019-1027; status is the answer of hw_intf_->GetPanelBrightness,
\* which reports the level the hardware holds
GetPanelBrightness(dd, hwst, status) ==
  IF status # kErrorNone
  THEN [error |-> status, brightness |-> Zero]
  ELSE GetPanelBrightnessFromLevel(dd, Frac(hwst.level, 1))

\* lines 994-1017; ipc: the display was constructed with an IPC interface
\* (ipc_intf_ is not null) and the payload could be created
HandleBacklightEvent(dd, brightness_level, ipc) ==
  IF ~ipc THEN dd
  ELSE LET g == GetPanelBrightnessFromLevel(dd, brightness_level)
       IN IF g.error # kErrorNone THEN dd
          ELSE [dd EXCEPT !.cached_brightness_ = g.brightness,
                          !.pending_brightness_ = TRUE]

----------------------------------------------------------------------------
(* Adaptive sync, idle timeout, partial-update control, PostCommit.         *)

SetQSyncModeActiveMode(dd, qsync_mode) ==
  IF ~dd.hw_panel_info_.qsync_support \/ dd.first_cycle_
  THEN [error |-> kErrorNotSupported, d |-> dd, calls |-> <<>>]
  ELSE IF dd.active_qsync_mode_ = qsync_mode
  THEN [error |-> kErrorNone, d |-> dd, calls |-> <<>>]
  ELSE [error |-> kErrorNone,
        d |-> [dd EXCEPT !.qsync_mode_ = qsync_mode, !.needs_avr_update_ = TRUE,
                         !.validated_ = FALSE],
        calls |-> <<"Refresh">>]

\* lines 1601-1622
SetQSyncMode(dd, qsync_mode) ==
  IF ~dd.hw_panel_info_.qsync_support \/ dd.first_cycle_
  THEN [error |-> kErrorNotSupported, d |-> dd, calls |-> <<>>]
  ELSE IF dd.qsync_mode_ = qsync_mode
  THEN [error |-> kErrorNone, d |-> dd, calls |-> <<>>]
  ELSE [error |-> kErrorNone,
        d |-> [dd EXCEPT !.qsync_mode_ = qsync_mode, !.needs_avr_update_ = TRUE,
                         !.validated_ = FALSE],
        calls |-> <<"Refresh">>]

\* lines 916-927, the call on the hardware events interface (921, 924)
SetVsyncStatusEvent(dd, hwst, enable) ==
  [hwst EXCEPT !.vsync = IF enable THEN dd.vsync_enable_ ELSE FALSE]

\* lines 916-927, the store to pending_vsync_enable_ (922, 925)
SetVsyncStatusPending(dd, enable) ==
  [dd EXCEPT !.pending_vsync_enable_ = ~enable]

\* lines 916-927
SetVsyncStatus(dd, hwst, enable) ==
  [d |-> SetVsyncStatusPending(dd, enable),
   hw |-> SetVsyncStatusEvent(dd, hwst, enable)]

HandleQsyncPostCommitClearsBoth(dd, hwst) ==
  LET Result(q) == [d |-> q.d, hw |-> SetVsyncStatusEvent(q.d, hwst, TRUE),
                    calls |-> q.calls]
  IN Result(IF dd.qsync_mode_ \in {kQsyncModeOneShot, kQsyncModeOneShotContinuous}
            THEN SetQSyncMode(dd, kQSyncModeNone)
            ELSE [d |-> [dd EXCEPT !.needs_avr_update_ = FALSE], calls |-> <<>>])

\* lines 639-651, up to the call on the hardware events interface that
\* SetVsyncStatus(true) makes at line 921
HandleQsyncPostCommit(dd, hwst) ==
  LET Result(q) == [d |-> q.d, hw |-> SetVsyncStatusEvent(q.d, hwst, TRUE),
                    calls |-> q.calls]
  IN Result(IF dd.qsync_mode_ = kQsyncModeOneShot
            THEN SetQSyncMode(dd, kQSyncModeNone)
            ELSE IF dd.qsync_mode_ \in {kQSyncModeContinuous, kQSyncModeNone}
            THEN [d |-> [dd EXCEPT !.needs_avr_update_ = FALSE], calls |-> <<>>]
            ELSE [d |-> dd, calls |-> <<>>])

\* the rest of HandleQsyncPostCommit: line 922 of SetVsyncStatus(true) and
\* the idle notification of lines 653-657
HandleQsyncPostCommitNotify(dd) ==
  LET notify_idle == /\ dd.enable_qsync_idle_
                     /\ dd.active_qsync_mode_ # kQSyncModeNone
                     /\ dd.handle_idle_timeout_
  IN [d |-> SetVsyncStatusPending(dd, TRUE),
      calls |-> IF notify_idle THEN <<"kPostIdleTimeout">> ELSE <<>>]

\* lines 514-550.  single_buffered is the flag
\* single_buffered_layer_present of the layer stack; env.frame_trigger is the
\* driver's answer to SetFrameTrigger.  The histogram interrupt set-up of
\* lines 547-549 is outside the model.
\* PreCommit with the override cleared whatever the hardware answers
PreCommitClearsOverrideAlways(dd, hwst, single_buffered, env) ==
  LET app_layer_count == dd.disp_layer_stack_.app_layer_count
      auto_refresh ==
        IF dd.hw_panel_info_.mode = kModeCommand
        THEN <<IF app_layer_count = 1 /\ single_buffered
               THEN "hw.SetAutoRefresh(true)" ELSE "hw.SetAutoRefresh(false)">>
             \o (IF single_buffered /\ app_layer_count > 1
                 THEN <<"Refresh">> ELSE <<>>)
        ELSE <<>>
      override == dd.trigger_mode_debug_ # kFrameTriggerMax
      vsync == IF dd.vsync_enable_
               THEN <<"Fence::Wait(retire_fence_)", "events.SetEventState(VSYNC, true)">>
               ELSE <<>>
  IN [d |-> [dd EXCEPT !.trigger_mode_debug_ = kFrameTriggerMax],
      hw |-> IF dd.vsync_enable_ THEN [hwst EXCEPT !.vsync = TRUE] ELSE hwst,
      calls |-> auto_refresh
                \o (IF override THEN <<"hw.SetFrameTrigger">> ELSE <<>>)
                \o vsync]

PreCommit(dd, hwst, single_buffered, env) ==
  LET app_layer_count == dd.disp_layer_stack_.app_layer_count
      auto_refresh ==
        IF dd.hw_panel_info_.mode = kModeCommand
        THEN <<IF app_layer_count = 1 /\ single_buffered
               THEN "hw.SetAutoRefresh(true)" ELSE "hw.SetAutoRefresh(false)">>
             \o (IF single_buffered /\ app_layer_count > 1
                 THEN <<"Refresh">> ELSE <<>>)
        ELSE <<>>
      override == dd.trigger_mode_debug_ # kFrameTriggerMax
      vsync == IF dd.vsync_enable_
               THEN <<"Fence::Wait(retire_fence_)", "events.SetEventState(VSYNC, true)">>
               ELSE <<>>
  IN [d |-> IF override /\ env.frame_trigger = kErrorNone
            THEN [dd EXCEPT !.trigger_mode_debug_ = kFrameTriggerMax]
            ELSE dd,
      hw |-> IF dd.vsync_enable_ THEN [hwst EXCEPT !.vsync = TRUE] ELSE hwst,
      calls |-> auto_refresh
                \o (IF override THEN <<"hw.SetFrameTrigger">> ELSE <<>>)
                \o vsync]

\* lines 560-565 (and SetUpCommit, lines 553-558, alike); env.commit is the
\* answer of DisplayBase::CommitLocked, which starts the frame
CommitLocked(dd, hwst, single_buffered, env) ==
  LET Result(p) ==
        [error |-> env.commit,
         d |-> [p.d EXCEPT !.phase = IF env.commit = kErrorNone
                                      THEN "committed" ELSE "idle"],
         hw |-> p.hw,
         calls |-> p.calls \o <<"base.CommitLocked">>]
  IN Result(PreCommit([dd EXCEPT !.last_panel_mode_ = dd.hw_panel_info_.mode],
                      hwst, single_buffered, env))

\* lines 568-571: the retry of a brightness the driver deferred;
\* env.brightness is the driver's answer to it
PostCommitRetry(dd, hwst, env) ==
  IF dd.pending_brightness_
  THEN LET b == SetPanelBrightness(dd, hwst, dd.cached_brightness_, env.brightness)
       IN [retried |-> TRUE, value |-> dd.cached_brightness_,
           d |-> b.d, hw |-> b.hw, calls |-> b.calls]
  ELSE [retried |-> FALSE, value |-> Zero, d |-> dd, hw |-> hwst, calls |-> <<>>]

\* ControlPartialUpdateLocked reporting a pending draw for every change
ControlPartialUpdateLockedAlwaysPending(dd, enable, env) ==
  IF env.dpps_disable_pu /\ enable
  THEN [error |-> kErrorNotSupported, d |-> dd, pending |-> 0]
  ELSE IF enable = dd.partial_update_control_
  THEN [error |-> kErrorNone, d |-> dd, pending |-> 0]
  ELSE [error |-> kErrorNone,
        d |-> [dd EXCEPT !.validated_ = FALSE, !.partial_update_control_ = enable],
        pending |-> 1]

\* lines 1068-1094, for a non-null `pending`; env.dpps_disable_pu is
\* dpps_info_.disable_pu_
ControlPartialUpdateLocked(dd, enable, env) ==
  IF env.dpps_disable_pu /\ enable
  THEN [error |-> kErrorNotSupported, d |-> dd, pending |-> 0]
  ELSE IF enable = dd.partial_update_control_
  THEN [error |-> kErrorNone, d |-> dd, pending |-> 0]
  ELSE [error |-> kErrorNone,
        d |-> [dd EXCEPT !.validated_ = FALSE, !.partial_update_control_ = enable],
        pending |-> IF ~enable THEN 1 ELSE 0]

\* the out-parameter `pending`: a null pointer, or a pointer to an integer
\* that holds value
NullOut == [null |-> TRUE, value |-> 0]
Out(value) == [null |-> FALSE, value |-> value]

\* lines 1063-1094: the null test of line 1069, and the integer behind
\* `pending`, which line 1079 is the first to write
ControlPartialUpdate(dd, enable, pending, env) ==
  IF pending.null
  THEN [error |-> kErrorParameters, d |-> dd, pending |-> pending.value]
  ELSE LET Written(r) ==
             [r EXCEPT !.pending = IF r.error = kErrorNotSupported
                                   THEN pending.value ELSE @]
       IN Written(ControlPartialUpdateLocked(dd, enable, env))

\* comp_manager_->SetIdleTimeoutMs with the values of Debug::GetIdleTimeoutMs
\* ("property") or with 0, 0 ("zero")
SetIdleTimeoutMs(hwst, value) == [hwst EXCEPT !.idle_timeout = value]

\* lines 660-669
UpdateDisplayModeParams(dd, hwst, env) ==
  IF dd.hw_panel_info_.mode = kModeVideo
  THEN [d |-> ControlPartialUpdateLocked(dd, FALSE, env).d, hw |-> hwst]
  ELSE IF dd.hw_panel_info_.mode = kModeCommand
  THEN [d |-> [dd EXCEPT !.switch_to_cmd_ = TRUE],
        hw |-> SetIdleTimeoutMs(hwst, "zero")]
  ELSE [d |-> dd, hw |-> hwst]

\* DisplayBase::ReconfigureDisplay: the attributes and the panel information
\* are read back from the hardware; env.hw_query is the outcome of the queries
BaseReconfigureDisplay(dd, hwst, env) ==
  IF env.hw_query # kErrorNone THEN dd
  ELSE [dd EXCEPT !.hw_panel_info_ = hwst.panel,
                  !.display_attributes_ = [fps |-> hwst.fps]]

\* SetDisplayMode without the return at line 751 when the driver refuses
SetDisplayModeIgnoreDriver(dd, hwst, mode, env) ==
  IF ~dd.active_
  THEN [error |-> kErrorNotSupported, d |-> dd, hw |-> hwst, calls |-> <<>>]
  ELSE IF mode \notin {kModeCommand, kModeVideo}
  THEN [error |-> kErrorParameters, d |-> dd, hw |-> hwst, calls |-> <<>>]
  ELSE IF mode = dd.hw_panel_info_.mode
  THEN [error |-> kErrorNone, d |-> dd, hw |-> hwst, calls |-> <<>>]
  ELSE
    LET Result(b, h) ==
          IF mode = kModeVideo
          THEN [error |-> env.hw_set,
                d |-> ControlPartialUpdateLocked(b, FALSE, env).d,
                hw |-> SetIdleTimeoutMs(h, "property"),
                calls |-> <<"hw.SetDisplayMode", "Refresh">>]
          ELSE [error |-> env.hw_set,
                d |-> [b EXCEPT !.switch_to_cmd_ = TRUE],
                hw |-> SetIdleTimeoutMs(h, "zero"),
                calls |-> <<"hw.SetDisplayMode", "Refresh">>]
        Switched(h) == Result(BaseReconfigureDisplay(dd, h, env), h)
    IN Switched([hwst EXCEPT !.panel.mode = mode])

\* lines 722-774; env.hw_set is the driver's answer to
\* hw_intf_->SetDisplayMode, which switches the panel when it succeeds
SetDisplayMode(dd, hwst, mode, env) ==
  IF ~dd.active_
  THEN [error |-> kErrorNotSupported, d |-> dd, hw |-> hwst, calls |-> <<>>]
  ELSE IF mode \notin {kModeCommand, kModeVideo}
  THEN [error |-> kErrorParameters, d |-> dd, hw |-> hwst, calls |-> <<>>]
  ELSE IF mode = dd.hw_panel_info_.mode
  THEN [error |-> kErrorNone, d |-> dd, hw |-> hwst, calls |-> <<>>]
  ELSE IF env.hw_set # kErrorNone
  THEN [error |-> env.hw_set, d |-> dd, hw |-> hwst,
        calls |-> <<"hw.SetDisplayMode">>]
  ELSE
    LET Result(b, h) ==
          IF mode = kModeVideo
          THEN [error |-> kErrorNone,
                d |-> ControlPartialUpdateLocked(b, FALSE, env).d,
                hw |-> SetIdleTimeoutMs(h, "property"),
                calls |-> <<"hw.SetDisplayMode", "Refresh">>]
          ELSE [error |-> kErrorNone,
                d |-> [b EXCEPT !.switch_to_cmd_ = TRUE],
                hw |-> SetIdleTimeoutMs(h, "zero"),
                calls |-> <<"hw.SetDisplayMode", "Refresh">>]
        Switched(h) == Result(BaseReconfigureDisplay(dd, h, env), h)
    IN Switched([hwst EXCEPT !.panel.mode = mode])

\* DisplayState
kStateOff == "kStateOff"
kStateOn == "kStateOn"

\* lines 670-712, in the members modelled here.  DisplayBase::SetDisplayState
\* answers env.base_state and, when it succeeds, makes the display active for
\* kStateOn and inactive for kStateOff; it leaves the panel mode alone, so
\* the test of line 692 fails.  demura_status is the composition manager's
\* demura status for the display (lines 681-686 and 706-711).
SetDisplayState(dd, state, env) ==
  LET DemuraOn(d0) ==
        IF d0.demura_intended_ /\ ~d0.demura_status /\ state = kStateOn
        THEN [d0 EXCEPT !.demura_status = TRUE] ELSE d0
      DemuraOff(d0) ==
        IF d0.demura_intended_ /\ d0.demura_status /\ state = kStateOff
        THEN [d0 EXCEPT !.demura_status = FALSE] ELSE d0
      Powered(d0) ==
        IF env.base_state # kErrorNone
        THEN [error |-> env.base_state, d |-> d0]
        ELSE [error |-> kErrorNone,
              d |-> DemuraOn([d0 EXCEPT !.active_ = (state = kStateOn),
                                        !.vsync_enable_ = IF state = kStateOff
                                                           THEN FALSE ELSE @])]
  IN Powered(DemuraOff(IF state = kStateOn /\ IsDeferredState(dd.deferred_config_)
                       THEN SetDeferredFpsConfig(dd) ELSE dd))

\* PostCommitDisplayMode without the store switch_to_cmd_ = false of line 607
PostCommitDisplayModeKeepsFlag(dd, hwst, env) ==
  LET Params(d0) ==
        IF d0.last_panel_mode_ # d0.hw_panel_info_.mode
        THEN UpdateDisplayModeParams(d0, hwst, env)
        ELSE [d |-> d0, hw |-> hwst]
  IN Params(IF dd.switch_to_cmd_
            THEN ControlPartialUpdateLocked(dd, TRUE, env).d
            ELSE dd)

\* lines 605-613: the pending switch to command mode re-enables partial
\* update, and a panel mode other than the one of the last commit re-derives
\* the mode's parameters
PostCommitDisplayMode(dd, hwst, env) ==
  LET Params(d0) ==
        IF d0.last_panel_mode_ # d0.hw_panel_info_.mode
        THEN UpdateDisplayModeParams(d0, hwst, env)
        ELSE [d |-> d0, hw |-> hwst]
  IN Params(IF dd.switch_to_cmd_
            THEN ControlPartialUpdateLocked(
                   [dd EXCEPT !.switch_to_cmd_ = FALSE], TRUE, env).d
            ELSE dd)

\* lines 572-651 and line 921, after a retry (retried) or without one: the
\* PostCommit up to the call SetVsyncStatus(true) makes on the hardware events
\* interface.  The error of ReconfigureDisplay (line 591) is dropped by the
\* code; `reconfigure` records it.  broadcast: dpps_pu_lock_.Broadcast() was
\* called (line 617).  env.dpps_disable_pu is dpps_info_.disable_pu_.
PostCommitHead(dd, hwst, env, retried) ==
  LET Result(r, m, notify, q) ==
        [error |-> kErrorNone, reconfigure |-> r.error, d |-> q.d, hw |-> q.hw,
         broadcast |-> notify, calls |-> r.calls \o q.calls]
      Qsync(r, m) ==
        Result(r, m, m.d.dpps_pu_nofiy_pending_,
               HandleQsyncPostCommit([m.d EXCEPT !.dpps_pu_nofiy_pending_ = FALSE],
                                     m.hw))
      DisplayMode(r) ==
        Qsync(r, PostCommitDisplayMode(
                   IF CanApplyDeferredState(r.d.deferred_config_)
                   THEN [r.d EXCEPT !.validated_ = FALSE,
                                    !.deferred_config_ = DeferClear(@)]
                   ELSE r.d,
                   hwst, env))
  IN DisplayMode(ReconfigureDisplay(
       [dd EXCEPT !.pending_brightness_ = IF retried THEN FALSE ELSE @,
                  !.first_cycle_ = FALSE, !.disable_pu_one_frame_ = FALSE,
                  !.deferred_config_ = UpdateDeferCount(@)],
       hwst, env))

\* lines 922, 653-657 and 634: the end of PostCommit
PostCommitTail(dd) ==
  LET Result(q) ==
        [d |-> [q.d EXCEPT !.handle_idle_timeout_ = FALSE, !.phase = "idle"],
         calls |-> q.calls]
  IN Result(HandleQsyncPostCommitNotify(dd))

\* lines 572-636, after a retry (retried) or without one
PostCommitRest(dd, hwst, env, retried) ==
  LET Result(h, t) ==
        [error |-> h.error, reconfigure |-> h.reconfigure, d |-> t.d, hw |-> h.hw,
         broadcast |-> h.broadcast, calls |-> h.calls \o t.calls]
      Finish(h) == Result(h, PostCommitTail(h.d))
  IN Finish(PostCommitHead(dd, hwst, env, retried))

\* lines 567-637, in the members modelled here.  DisplayBase::PostCommit
\* ends the first cycle and the one-frame partial-update disable.
PostCommit(dd, hwst, env) ==
  LET Result(b, r) ==
        [error |-> r.error, reconfigure |-> r.reconfigure, d |-> r.d, hw |-> r.hw,
         broadcast |-> r.broadcast, calls |-> b.calls \o r.calls]
      Rest(b) == Result(b, PostCommitRest(b.d, b.hw, env, b.retried))
  IN Rest(PostCommitRetry(dd, hwst, env))

\* IdleTimeout without the test of the panel mode at line 931
IdleTimeoutAnyMode(dd, env) ==
  IF ~env.accept
  THEN [d |-> dd, calls |-> <<"kIdleTimeout">>]
  ELSE [d |-> [dd EXCEPT !.handle_idle_timeout_ = TRUE],
        calls |-> <<"kIdleTimeout", "Refresh", "hw.EnableSelfRefresh">>
                   \o (IF ~dd.enhance_idle_time_
                       THEN <<"comp.ProcessIdleTimeout">> ELSE <<>>)
                   \o <<"hw.EnableSelfRefresh">>]

\* lines 930-944; env.accept: the client accepts the kIdleTimeout event
IdleTimeout(dd, env) ==
  IF dd.hw_panel_info_.mode = kModeVideo
  THEN IF ~env.accept
       THEN [d |-> dd, calls |-> <<"kIdleTimeout">>]
       ELSE [d |-> [dd EXCEPT !.handle_idle_timeout_ = TRUE],
             calls |-> <<"kIdleTimeout", "Refresh", "hw.EnableSelfRefresh">>
                        \o (IF ~dd.enhance_idle_time_
                            THEN <<"comp.ProcessIdleTimeout">> ELSE <<>>)
                        \o <<"hw.EnableSelfRefresh">>]
  ELSE [d |-> dd, calls |-> <<>>]

\* lines 1096-1102
DisablePartialUpdateOneFrame(dd) ==
  [dd EXCEPT !.disable_pu_one_frame_ = TRUE, !.validated_ = FALSE]

----------------------------------------------------------------------------
(* The operations as actions.                                               *)

\* Init has succeeded and the hardware interface is alive
DisplayReady ==
  /\ init.done
  /\ init.result = kErrorNone
  /\ \A i \in DOMAIN init.m.trace : init.m.trace[i] # "hw.Destroy"

NoCall == [op |-> "none"]

\* both threads outside their handlers
NoHandler == [dpps |-> "idle", event |-> "idle"]

----------------------------------------------------------------------------
(* DppsInfo: the feature-control handle dpps_intf_ and the registry         *)
(* display_id_ are static, one of each for the process.                     *)

MaxDisplays == 2

DisplayIds == 1 .. MaxDisplays

\* the id of the display whose members are in d
BuiltInDisplayId == CHOOSE i \in DisplayIds : \A j \in DisplayIds : i <= j

\* dpps_intf_: NULL, the library's implementation, or DppsDummyImpl
kDppsNull == "NULL"
kDppsImpl == "GetDppsInterface()"
kDppsDummyImpl == "DppsDummyImpl"

\* lines 1520-1521.  display_id_ is a vector that Init keeps free of
\* duplicates (lines 1539-1542), held here as a set.
DppsInfoNew == [dpps_intf_ |-> kDppsNull, display_id_ |-> {}]

\* what the collaborators answer during DppsInfo::Init:
\*   get_info  intf->DppsProcessOps(kDppsGetDisplayInfo), which passes on the
\*             error of GetPanelBrightnessBasePath (lines 1185-1188)
\*   lib       dpps_impl_lib_.Open, Sym and GetDppsInterface()
\*   init      dpps_intf_->Init of the library's implementation
DppsLibAnswers == {"ok", "open_failed", "sym_missing", "null_interface"}

QuietDppsEnv == [get_info |-> kErrorNone, lib |-> "ok", init |-> kErrorNone]

\* lines 1576-1582
DppsInfoDeinit(st) == [st EXCEPT !.dpps_intf_ = kDppsNull]

\* lines 1572-1574, the exit label
DppsInfoInitExit(st) == [DppsInfoDeinit(st) EXCEPT !.dpps_intf_ = kDppsDummyImpl]

\* lines 1523-1575, for the non-null intf that PostCommit passes (line 619).
\* DppsDummyImpl::Init is inert and reports success.
DppsInfoInit(st, display_id, env) ==
  LET Register(s1) ==
        IF s1.dpps_intf_ = kDppsImpl /\ env.init # kErrorNone
        THEN DppsInfoInitExit(s1)
        ELSE [s1 EXCEPT !.display_id_ = @ \cup {display_id}]
  IN IF env.get_info # kErrorNone THEN st
     ELSE IF display_id \in st.display_id_ THEN st
     ELSE IF st.dpps_intf_ = kDppsNull
     THEN IF env.lib # "ok"
          THEN DppsInfoInitExit(st)
          ELSE Register([st EXCEPT !.dpps_intf_ = kDppsImpl])
     ELSE Register(st)

\* lines 1584-1594: whether the notification reaches an implementation
DppsNotifyOps(st) == st.dpps_intf_ # kDppsNull

----------------------------------------------------------------------------
(* ResourceDefault, the pipe allocator.  Its members and the types of its   *)
(* pipes and contexts are declared in resource_default.h; the bodies of its *)
(* operations are not in src and follow the description of the allocator.   *)

NumPipes == 3

\* HWBlockType: the blocks displays are driven by, and kHWBlockMax for none
kHWBlockMax == "kHWBlockMax"
HWBlocks == {"kHWPrimary", "kHWHDMI"}

\* PipeOwner, lines 141-144
kPipeOwnerUserMode == "kPipeOwnerUserMode"
kPipeOwnerKernelMode == "kPipeOwnerKernelMode"

\* SourcePipe(), lines 159-165, for the pipe at position i of src_pipes_,
\* in the members used here; pipes are offered in the order of their index
SourcePipeNew(i) ==
  [owner |-> kPipeOwnerUserMode, index |-> i, hw_block_type |-> kHWBlockMax,
   priority |-> i]

\* SourcePipe::ResetState, line 167
ResetState(pipe) == [pipe EXCEPT !.hw_block_type = kHWBlockMax]

\* HWBlockContext(), lines 180-183
HWBlockContextNew == [is_in_use |-> FALSE]

\* DisplayResourceContext(), lines 170-178, with the pipes of the display's
\* validated layer set; no context stands for an unregistered display
DisplayResourceContextNew == [hw_block_type |-> kHWBlockMax, pipes |-> {}]
NoContext == [hw_block_type |-> "none", pipes |-> {}]

\* the members at lines 217-220 after Init, and the display contexts
ResourceDefaultNew ==
  [src_pipes_ |-> [i \in 1..NumPipes |-> SourcePipeNew(i)],
   hw_block_ctx_ |-> [b \in HWBlocks |-> HWBlockContextNew],
   ctx |-> [id \in DisplayIds |-> NoContext]]

\* no pipe: the value a search returns when it finds none
kPipeIdMax == NumPipes + 1

\* the pipe of the least priority among S, or kPipeIdMax
LeastPriority(src_pipes, S) ==
  IF S = {} THEN kPipeIdMax
  ELSE CHOOSE i \in S : \A j \in S : src_pipes[i].priority <= src_pipes[j].priority

\* SearchPipe that offers every user-mode pipe the caller has not claimed,
\* idle or not
SearchPipeAnyBlock(hw_block_type, src_pipes, claimed) ==
  LeastPriority(src_pipes,
    {i \in DOMAIN src_pipes :
       /\ src_pipes[i].owner = kPipeOwnerUserMode
       /\ i \notin claimed})

\* SearchPipe, line 189: the idle pipe of the least priority; a pipe is idle
\* when it is user-mode and assigned to no block
SearchPipe(hw_block_type, src_pipes, claimed) ==
  LeastPriority(src_pipes,
    {i \in DOMAIN src_pipes :
       /\ src_pipes[i].owner = kPipeOwnerUserMode
       /\ src_pipes[i].hw_block_type = kHWBlockMax})

\* GetPipe, line 190: a pipe the block held for the previous frame and has
\* not claimed again yet, or else an idle one
GetPipe(hw_block_type, src_pipes, previous, claimed) ==
  LET held == {i \in previous \ claimed :
                 src_pipes[i].hw_block_type = hw_block_type}
  IN IF held # {} THEN LeastPriority(src_pipes, held)
     ELSE SearchPipe(hw_block_type, src_pipes, claimed)

\* the pipes of a frame that needs n of them: each is marked with the
\* block; when the pool is exhausted the pipes claimed anew are released
\* and the frame fails
RECURSIVE ClaimPipes(_, _, _, _, _)
ClaimPipes(src_pipes, hw_block_type, previous, claimed, n) ==
  IF n = 0
  THEN [error |-> kErrorNone, src_pipes |-> src_pipes, pipes |-> claimed]
  ELSE LET Claim(i) ==
             IF i = kPipeIdMax
             THEN [error |-> kErrorResources,
                   src_pipes |-> [j \in DOMAIN src_pipes |->
                                    IF j \in claimed \ previous
                                    THEN ResetState(src_pipes[j])
                                    ELSE src_pipes[j]],
                   pipes |-> previous]
             ELSE ClaimPipes([src_pipes EXCEPT ![i].hw_block_type = hw_block_type],
                             hw_block_type, previous, claimed \cup {i}, n - 1)
       IN Claim(GetPipe(hw_block_type, src_pipes, previous, claimed))

\* ResourceDefault::RegisterDisplay: a block that another display uses is
\* refused
RegisterDisplay(r, display_id, hw_block_type) ==
  IF r.ctx[display_id] # NoContext
  THEN [error |-> kErrorParameters, res |-> r]
  ELSE IF r.hw_block_ctx_[hw_block_type].is_in_use
  THEN [error |-> kErrorResources, res |-> r]
  ELSE [error |-> kErrorNone,
        res |-> [r EXCEPT
                   !.hw_block_ctx_[hw_block_type].is_in_use = TRUE,
                   !.ctx[display_id] =
                      [DisplayResourceContextNew EXCEPT
                         !.hw_block_type = hw_block_type]]]

\* ResourceDefault::Purge: every pipe of the display's block is released
ResourceDefaultPurge(r, display_id) ==
  LET b == r.ctx[display_id].hw_block_type
  IN [r EXCEPT
        !.src_pipes_ = [i \in DOMAIN @ |->
                          IF @[i].hw_block_type = b THEN ResetState(@[i]) ELSE @[i]],
        !.ctx[display_id].pipes = {}]

\* ResourceDefault::UnregisterDisplay
UnregisterDisplay(r, display_id) ==
  LET Unregister(p) ==
        [p EXCEPT !.hw_block_ctx_[r.ctx[display_id].hw_block_type].is_in_use = FALSE,
                  !.ctx[display_id] = NoContext]
  IN Unregister(ResourceDefaultPurge(r, display_id))

\* ResourceDefault::Prepare for a layer set that needs n pipes
ResourceDefaultPrepare(r, display_id, n) ==
  LET Result(c) ==
        [error |-> c.error,
         res |-> [r EXCEPT !.src_pipes_ = c.src_pipes,
                           !.ctx[display_id].pipes = c.pipes]]
  IN Result(ClaimPipes(r.src_pipes_, r.ctx[display_id].hw_block_type,
                       r.ctx[display_id].pipes, {}, n))

\* ResourceDefault::Commit and PostCommit: the pipes of the block that the
\* validated layer set does not reference are released
ResourceDefaultPostCommit(r, display_id) ==
  LET b == r.ctx[display_id].hw_block_type
  IN [r EXCEPT
        !.src_pipes_ = [i \in DOMAIN @ |->
                          IF @[i].hw_block_type = b /\ i \notin r.ctx[display_id].pipes
                          THEN ResetState(@[i]) ELSE @[i]]]

\* the ratio by which decimation extends the downscale range of the scaler
kMaxDecimationDownScaleRatio == 16

\* an exact ratio of two integers, not rounded
Ratio(n, dn) == [num |-> n, den |-> dn]

\* a scale ratio: the source extent over the destination extent
GetScaleFactor(crop, dst) == Ratio(crop, dst)

\* ResourceDefault::ValidateDownScaling: a downscale beyond the scaler's
\* range extended by decimation is not supported
ValidateDownScaling(scale, max_scale_down) ==
  IF FLe(scale, Ratio(max_scale_down * kMaxDecimationDownScaleRatio, 1))
  THEN kErrorNone
  ELSE kErrorNotSupported

\* the search of CalculateDecimation: the exponent is raised from decimation
\* until the residual scale is within the scaler's range
RECURSIVE DecimationFrom(_, _, _)
DecimationFrom(downscale, max_scale_down, decimation) ==
  IF FLe(downscale, Ratio(max_scale_down * Pow2(decimation), 1))
  THEN decimation
  ELSE DecimationFrom(downscale, max_scale_down, decimation + 1)

\* the search raising the exponent two at a time
RECURSIVE DecimationFromByTwo(_, _, _)
DecimationFromByTwo(downscale, max_scale_down, decimation) ==
  IF FLe(downscale, Ratio(max_scale_down * Pow2(decimation), 1))
  THEN decimation
  ELSE DecimationFromByTwo(downscale, max_scale_down, decimation + 2)

\* CalculateDecimation with the exponent raised two at a time
CalculateDecimationByTwo(downscale, max_scale_down) ==
  IF ValidateDownScaling(downscale, max_scale_down) # kErrorNone
  THEN [error |-> kErrorNotSupported, decimation |-> 0]
  ELSE [error |-> kErrorNone,
        decimation |-> DecimationFromByTwo(downscale, max_scale_down, 0)]

\* ResourceDefault::CalculateDecimation
CalculateDecimation(downscale, max_scale_down) ==
  IF ValidateDownScaling(downscale, max_scale_down) # kErrorNone
  THEN [error |-> kErrorNotSupported, decimation |-> 0]
  ELSE [error |-> kErrorNone,
        decimation |-> DecimationFrom(downscale, max_scale_down, 0)]

\* a source rectangle: its horizontal edges are fractions of a pixel
SrcRect(l, t, r, b) ==
  [left |-> Ratio(l, 1), top |-> t, right |-> Ratio(r, 1), bottom |-> b]

\* a pipe without a request
NoPipe == [valid |-> FALSE]

\* the request of one pipe
PipeInfo(src_roi, dst_roi) ==
  [valid |-> TRUE, src_roi |-> src_roi, dst_roi |-> dst_roi]

\* the source column that the destination column split maps to
SrcColumn(src_rect, dst_rect, split) ==
  Ratio(src_rect.left.num * (dst_rect.right - dst_rect.left)
          + (src_rect.right.num - src_rect.left.num) * (split - dst_rect.left),
        dst_rect.right - dst_rect.left)

\* the source cut in the middle whatever the widths of the halves
SplitRectInHalves(src_rect, dst_rect, split) ==
  LET Cut(c) ==
        [src_left |-> [src_rect EXCEPT !.right = c],
         dst_left |-> [dst_rect EXCEPT !.right = split],
         src_right |-> [src_rect EXCEPT !.left = c],
         dst_right |-> [dst_rect EXCEPT !.left = split]]
  IN Cut(Ratio(src_rect.left.num + src_rect.right.num, 2))

\* ResourceDefault::SplitRect: the destination is cut at the split boundary
\* and the source in proportion to the widths of the two halves
SplitRect(src_rect, dst_rect, split) ==
  LET Cut(c) ==
        [src_left |-> [src_rect EXCEPT !.right = c],
         dst_left |-> [dst_rect EXCEPT !.right = split],
         src_right |-> [src_rect EXCEPT !.left = c],
         dst_right |-> [dst_rect EXCEPT !.left = split]]
  IN Cut(SrcColumn(src_rect, dst_rect, split))

\* ResourceDefault::DisplaySplitConfig on a display whose left half is
\* split_left wide: a layer within one half gets one pipe, a layer across
\* the boundary one pipe per half unless its source crop cannot be cut at
\* the required alignment (aligned = FALSE)
DisplaySplitConfig(split_left, src_rect, dst_rect, aligned) ==
  LET Both(s) ==
        [error |-> kErrorNone,
         left_pipe |-> PipeInfo(s.src_left, s.dst_left),
         right_pipe |-> PipeInfo(s.src_right, s.dst_right)]
  IN IF dst_rect.right <= split_left
     THEN [error |-> kErrorNone,
           left_pipe |-> PipeInfo(src_rect, dst_rect), right_pipe |-> NoPipe]
     ELSE IF dst_rect.left >= split_left
     THEN [error |-> kErrorNone,
           left_pipe |-> NoPipe, right_pipe |-> PipeInfo(src_rect, dst_rect)]
     ELSE IF ~aligned
     THEN [error |-> kErrorNotSupported,
           left_pipe |-> NoPipe, right_pipe |-> NoPipe]
     ELSE Both(SplitRect(src_rect, dst_rect, split_left))

\* dpps_pu_lock_.Broadcast() (line 617) wakes the DPPS thread if it waits in
\* WaitFinite (line 1155); a broadcast without a waiter has no effect
Broadcast(called) ==
  IF called /\ pc.dpps = "waiting" THEN [pc EXCEPT !.dpps = "woken"] ELSE pc

\* the client enters an operation with the arguments c; the operation runs
\* as the next step
Call(c) ==
  /\ DisplayReady
  /\ call = NoCall
  /\ call' = c
  /\ last' = NoOp
  /\ UNCHANGED <<init, d, hw, pc, dpps, res>>

\* the layers of ls whose update mask has a bit other than surface damage
OtherBitLayers(ls) ==
  {i \in DOMAIN ls.layers : ls.layers[i].update_mask \ {kSurfaceDamage} # {}}

\* DisplayBuiltIn::Prepare on the layer stack call.ls
Prepare_ ==
  /\ call.op = "Prepare"
  /\ \E r \in {Prepare(d, call.ls, call.env)} :
        /\ d' = [r.d EXCEPT !.phase = IF r.error = kErrorNone
                                      THEN "prepared" ELSE "idle"]
        /\ last' = [op |-> "Prepare", error |-> r.error, skipped |-> r.skipped,
                    calls |-> r.calls,
                    demura_was |-> d.disp_layer_stack_.demura_target_index,
                    other_bits |-> OtherBitLayers(call.ls) # {}]
  /\ call' = NoCall
  /\ UNCHANGED <<init, hw, pc, dpps, res>>

\* DisplayBuiltIn::PrePrepare with the arguments of the pending call; a
\* frame it accepts needs no Prepare
PrePrepare_ ==
  /\ call.op = "PrePrepare"
  /\ \E r \in {PrePrepare(d, call.ls, call.env)} :
        /\ d' = [r.d EXCEPT !.phase = IF r.error = kErrorNone
                                      THEN "prepared" ELSE @]
        /\ last' = [op |-> "PrePrepare", error |-> r.error, calls |-> r.calls,
                    demura_was |-> d.disp_layer_stack_.demura_target_index]
  /\ call' = NoCall
  /\ UNCHANGED <<init, hw, pc, dpps, res>>

\* DisplayBuiltIn::Commit of the frame that Prepare validated
Commit_(single_buffered, env) ==
  /\ DisplayReady
  /\ call = NoCall
  /\ d.phase = "prepared"
  /\ \E r \in {CommitLocked(d, hw, single_buffered, env)} :
        /\ d' = r.d
        /\ hw' = r.hw
        /\ last' = [op |-> "Commit", error |-> r.error, calls |-> r.calls,
                    frame_trigger |-> IF d.trigger_mode_debug_ # kFrameTriggerMax
                                      THEN env.frame_trigger ELSE "none"]
  /\ UNCHANGED <<init, call, pc, dpps, res>>

\* lines 1221-1226
SetFrameTriggerMode(dd, mode) ==
  [dd EXCEPT !.validated_ = FALSE, !.trigger_mode_debug_ = mode]

\* DisplayBuiltIn::SetFrameTriggerMode
SetFrameTriggerMode_(mode) ==
  /\ DisplayReady
  /\ call = NoCall
  /\ d' = SetFrameTriggerMode(d, mode)
  /\ last' = [op |-> "SetFrameTriggerMode", mode |-> mode]
  /\ UNCHANGED <<init, hw, call, pc, dpps, res>>

\* DisplayBuiltIn::PostCommit, which ends the frame that Commit started
PostCommit_(env) ==
  /\ DisplayReady
  /\ call = NoCall
  /\ d.phase = "committed"
  /\ \E r \in {PostCommit(d, hw, env)} :
        /\ d' = r.d
        /\ hw' = r.hw
        /\ last' = [op |-> "PostCommit", error |-> r.error,
                    reconfigure |-> r.reconfigure, calls |-> r.calls,
                    brightness |-> IF d.pending_brightness_
                                   THEN env.brightness ELSE "none"]
        /\ pc' = Broadcast(r.broadcast)
  /\ dpps' = DppsInfoInit(dpps, BuiltInDisplayId, env.dpps)
  /\ UNCHANGED <<init, call, res>>

\* PostCommit up to line 571: the client thread, holding disp_mutex_, has
\* retried a pending brightness under brightness_lock_ and released that lock
PostCommitRetry_(env) ==
  /\ DisplayReady
  /\ call = NoCall
  /\ d.phase = "committed"
  /\ \E r \in {PostCommitRetry(d, hw, env)} :
        /\ d' = r.d
        /\ hw' = r.hw
        /\ call' = [op |-> "PostCommit", env |-> env, retried |-> r.retried,
                    value |-> r.value, calls |-> r.calls]
  /\ last' = NoOp
  /\ UNCHANGED <<init, pc, dpps, res>>

\* PostCommit from line 572 on: pending_brightness_ is cleared without
\* brightness_lock_ and the frame's bookkeeping is done
PostCommitRest_ ==
  /\ call.op = "PostCommit"
  /\ \E r \in {PostCommitRest(d, hw, call.env, call.retried)} :
        /\ d' = r.d
        /\ last' = [op |-> "PostCommit", error |-> r.error,
                    reconfigure |-> r.reconfigure, calls |-> call.calls \o r.calls,
                    brightness |-> IF call.retried
                                   THEN call.env.brightness ELSE "none"]
        /\ hw' = r.hw
        /\ pc' = Broadcast(r.broadcast)
  /\ dpps' = DppsInfoInit(dpps, BuiltInDisplayId, call.env.dpps)
  /\ call' = NoCall
  /\ UNCHANGED <<init, res>>

\* PostCommit from line 572 to line 921: the frame's bookkeeping up to the
\* SetEventState call of SetVsyncStatus(true)
PostCommitHead_ ==
  /\ call.op = "PostCommit"
  /\ \E r \in {PostCommitHead(d, hw, call.env, call.retried)} :
        /\ d' = r.d
        /\ hw' = r.hw
        /\ pc' = Broadcast(r.broadcast)
        /\ call' = [op |-> "PostCommitTail", error |-> r.error,
                    reconfigure |-> r.reconfigure, calls |-> call.calls \o r.calls,
                    brightness |-> IF call.retried
                                   THEN call.env.brightness ELSE "none"]
  /\ dpps' = DppsInfoInit(dpps, BuiltInDisplayId, call.env.dpps)
  /\ last' = NoOp
  /\ UNCHANGED <<init, res>>

\* PostCommit from line 922 on: pending_vsync_enable_ = false, the idle
\* notification and handle_idle_timeout_ = false
PostCommitTail_ ==
  /\ call.op = "PostCommitTail"
  /\ \E r \in {PostCommitTail(d)} :
        /\ d' = r.d
        /\ last' = [op |-> "PostCommit", error |-> call.error,
                    reconfigure |-> call.reconfigure,
                    calls |-> call.calls \o r.calls,
                    brightness |-> call.brightness]
  /\ call' = NoCall
  /\ UNCHANGED <<init, hw, pc, dpps, res>>

\* dpps_info_.Init(this, panel_name) at line 619, in the PostCommit of the
\* display display_id
DppsInfoInit_(display_id, env) ==
  /\ dpps' = DppsInfoInit(dpps, display_id, env)
  /\ last' = [op |-> "DppsInfo::Init", display_id |-> display_id, env |-> env]
  /\ UNCHANGED <<init, d, hw, call, pc, res>>

\* DisplayBuiltIn::Deinit of the display display_id, lines 193-210, in the
\* members of DppsInfo
Deinit_(display_id) ==
  /\ dpps' = DppsInfoDeinit(dpps)
  /\ last' = [op |-> "Deinit", display_id |-> display_id]
  /\ UNCHANGED <<init, d, hw, call, pc, res>>

\* dpps_info_.DppsNotifyOps of the display display_id (lines 586, 628, 2018)
DppsNotifyOps_(display_id) ==
  /\ last' = [op |-> "DppsNotifyOps", display_id |-> display_id,
              delivered |-> DppsNotifyOps(dpps)]
  /\ UNCHANGED <<init, d, hw, call, pc, dpps, res>>

\* DisplayBuiltIn::BuildLayerStackStats with the layer stack of the pending
\* call
BuildLayerStackStats_ ==
  /\ call.op = "BuildLayerStackStats"
  /\ \E r \in {BuildLayerStackStats(d, call.ls)} :
        /\ d' = r.d
        /\ last' = [op |-> "BuildLayerStackStats", error |-> r.error]
  /\ call' = NoCall
  /\ UNCHANGED <<init, hw, pc, dpps, res>>

\* ResourceDefault::RegisterDisplay for a display driven by hw_block_type
RegisterDisplay_(display_id, hw_block_type) ==
  /\ \E r \in {RegisterDisplay(res, display_id, hw_block_type)} :
        /\ res' = r.res
        /\ last' = [op |-> "RegisterDisplay", error |-> r.error]
  /\ UNCHANGED <<init, d, hw, call, pc, dpps>>

\* ResourceDefault::UnregisterDisplay of a registered display
UnregisterDisplay_(display_id) ==
  /\ res.ctx[display_id] # NoContext
  /\ res' = UnregisterDisplay(res, display_id)
  /\ last' = [op |-> "UnregisterDisplay", error |-> kErrorNone]
  /\ UNCHANGED <<init, d, hw, call, pc, dpps>>

\* ResourceDefault::Prepare of a registered display
ResourceDefaultPrepare_(display_id, n) ==
  /\ res.ctx[display_id] # NoContext
  /\ \E r \in {ResourceDefaultPrepare(res, display_id, n)} :
        /\ res' = r.res
        /\ last' = [op |-> "ResourceDefault::Prepare", error |-> r.error]
  /\ UNCHANGED <<init, d, hw, call, pc, dpps>>

\* ResourceDefault::Commit and PostCommit of a registered display
ResourceDefaultPostCommit_(display_id) ==
  /\ res.ctx[display_id] # NoContext
  /\ res' = ResourceDefaultPostCommit(res, display_id)
  /\ last' = [op |-> "ResourceDefault::PostCommit", error |-> kErrorNone]
  /\ UNCHANGED <<init, d, hw, call, pc, dpps>>

\* ResourceDefault::Purge of a registered display
ResourceDefaultPurge_(display_id) ==
  /\ res.ctx[display_id] # NoContext
  /\ res' = ResourceDefaultPurge(res, display_id)
  /\ last' = [op |-> "ResourceDefault::Purge", error |-> kErrorNone]
  /\ UNCHANGED <<init, d, hw, call, pc, dpps>>

\* the kernel takes an idle pipe (owner = kPipeOwnerKernelMode) or gives a
\* pipe back
SetPipeOwner_(i, owner) ==
  /\ res.src_pipes_[i].hw_block_type = kHWBlockMax
  /\ res.src_pipes_[i].owner # owner
  /\ res' = [res EXCEPT !.src_pipes_[i].owner = owner]
  /\ last' = [op |-> "SetPipeOwner", error |-> kErrorNone]
  /\ UNCHANGED <<init, d, hw, call, pc, dpps>>

\* ResourceDefault::SetDecimationFactor for a pipe that reads crop pixels
\* into dst pixels on hardware whose scaler downscales by max_scale_down
SetDecimationFactor_(crop, dst, max_scale_down) ==
  /\ \E r \in {CalculateDecimation(GetScaleFactor(crop, dst), max_scale_down)} :
        last' = [op |-> "SetDecimationFactor", error |-> r.error,
                 crop |-> crop, dst |-> dst, max_scale_down |-> max_scale_down,
                 decimation |-> r.decimation]
  /\ UNCHANGED <<init, d, hw, call, pc, dpps, res>>

\* ResourceDefault::DisplaySplitConfig for one layer of a split display
DisplaySplitConfig_(split_left, src_rect, dst_rect, aligned) ==
  /\ \E r \in {DisplaySplitConfig(split_left, src_rect, dst_rect, aligned)} :
        last' = [op |-> "DisplaySplitConfig", error |-> r.error,
                 split_left |-> split_left,
                 src_rect |-> src_rect, dst_rect |-> dst_rect,
                 left_pipe |-> r.left_pipe, right_pipe |-> r.right_pipe]
  /\ UNCHANGED <<init, d, hw, call, pc, dpps, res>>

\* DisplayBuiltIn::SetRefreshRate with the arguments of the pending call
SetRefreshRate_ ==
  /\ call.op = "SetRefreshRate"
  /\ \E r \in {SetRefreshRate(d, hw, call.refresh_rate, call.final_rate,
                                call.idle_screen, call.env)} :
        /\ d' = r.d
        /\ hw' = r.hw
        /\ last' = [op |-> "SetRefreshRate", final_rate |-> call.final_rate,
                    was |-> d.current_refresh_rate_,
                    error |-> r.error, calls |-> r.calls]
  /\ call' = NoCall
  /\ UNCHANGED <<init, pc, dpps, res>>

\* DisplayBuiltIn::SetActiveConfig with the arguments of the pending call
SetActiveConfig_ ==
  /\ call.op = "SetActiveConfig"
  /\ \E r \in {SetActiveConfig(d, hw, call.index, call.env)} :
        /\ d' = r.d
        /\ hw' = r.hw
        /\ last' = [op |-> "SetActiveConfig", index |-> call.index,
                    error |-> r.error, calls |-> r.calls]
  /\ call' = NoCall
  /\ UNCHANGED <<init, pc, dpps, res>>

\* DisplayBuiltIn::SetDisplayMode with the arguments of the pending call
SetDisplayMode_ ==
  /\ call.op = "SetDisplayMode"
  /\ \E r \in {SetDisplayMode(d, hw, call.mode, call.env)} :
        /\ d' = r.d
        /\ hw' = r.hw
        /\ last' = [op |-> "SetDisplayMode", error |-> r.error, calls |-> r.calls]
  /\ call' = NoCall
  /\ UNCHANGED <<init, pc, dpps, res>>

\* DisplayBuiltIn::SetDisplayState
SetDisplayState_(state, env) ==
  /\ DisplayReady
  /\ call = NoCall
  /\ \E r \in {SetDisplayState(d, state, env)} :
        /\ d' = r.d
        /\ last' = [op |-> "SetDisplayState", state |-> state, error |-> r.error]
  /\ UNCHANGED <<init, hw, call, pc, dpps, res>>

\* DisplayBuiltIn::SetQSyncMode
SetQSyncMode_(qsync_mode) ==
  /\ DisplayReady
  /\ call = NoCall
  /\ \E r \in {SetQSyncMode(d, qsync_mode)} :
        /\ d' = r.d
        /\ last' = [op |-> "SetQSyncMode", qsync_mode |-> qsync_mode,
                    error |-> r.error, calls |-> r.calls]
  /\ UNCHANGED <<init, hw, call, pc, dpps, res>>

\* DisplayBuiltIn::IdleTimeout
IdleTimeout_(env) ==
  /\ DisplayReady
  /\ call = NoCall
  /\ \E r \in {IdleTimeout(d, env)} :
        /\ d' = r.d
        /\ last' = [op |-> "IdleTimeout", calls |-> r.calls,
                    accept |-> env.accept]
  /\ UNCHANGED <<init, hw, call, pc, dpps, res>>

\* DisplayBuiltIn::SetPanelBrightness; status is the driver's answer.  The
\* brightness operations take brightness_lock_ and not disp_mutex_, so they
\* also run while the client is inside a frame operation.
SetPanelBrightness_(brightness, status) ==
  /\ DisplayReady
  /\ \E r \in {SetPanelBrightness(d, hw, brightness, status)} :
        /\ d' = r.d
        /\ hw' = r.hw
        /\ last' = [op |-> "SetPanelBrightness", brightness |-> brightness,
                    status |-> IF r.calls = <<>> THEN "none" ELSE status,
                    error |-> r.error]
  /\ UNCHANGED <<init, call, pc, dpps, res>>

\* DisplayBuiltIn::GetPanelBrightness
GetPanelBrightness_(status) ==
  /\ DisplayReady
  /\ \E r \in {GetPanelBrightness(d, hw, status)} :
        last' = [op |-> "GetPanelBrightness", status |-> status,
                 error |-> r.error, brightness |-> r.brightness]
  /\ UNCHANGED <<init, d, hw, call, pc, dpps, res>>

\* DisplayBuiltIn::HandleBacklightEvent
HandleBacklightEvent_(brightness_level, ipc) ==
  /\ DisplayReady
  /\ d' = HandleBacklightEvent(d, brightness_level, ipc)
  /\ last' = [op |-> "HandleBacklightEvent"]
  /\ UNCHANGED <<init, hw, call, pc, dpps, res>>

\* propagate_vsync without the test of qsync_enabled
VSyncWhateverQsync(dd, vsync_enable) == vsync_enable

\* lines 899-902, propagate_vsync; vsync_enable is
\* vsync_enable_ && !drop_hw_vsync_.  No lock is taken.
VSync(dd, vsync_enable) ==
  LET qsync_enabled == dd.enable_qsync_idle_ /\ dd.active_qsync_mode_ # kQSyncModeNone
  IN vsync_enable /\ ~qsync_enabled

\* DisplayBuiltIn::VSync on the event thread, lines 897-914: a pulse that is
\* not propagated disables the subscription until the display updates
VSync_(drop_hw_vsync) ==
  /\ DisplayReady
  /\ pc.event = "idle"
  /\ \E propagate \in {VSync(d, d.vsync_enable_ /\ ~drop_hw_vsync)} :
        /\ last' = [op |-> "VSync", propagate |-> propagate,
                    drop_hw_vsync |-> drop_hw_vsync]
        /\ \E r \in {IF propagate THEN [d |-> d, hw |-> hw]
                                   ELSE SetVsyncStatus(d, hw, FALSE)} :
              d' = r.d /\ hw' = r.hw
  /\ UNCHANGED <<init, call, pc, dpps, res>>

\* VSync up to line 924: the event thread has found the pulse not to be
\* propagated and has disabled the subscription
VSyncDisable_(drop_hw_vsync) ==
  /\ DisplayReady
  /\ pc.event = "idle"
  /\ ~VSync(d, d.vsync_enable_ /\ ~drop_hw_vsync)
  /\ hw' = SetVsyncStatusEvent(d, hw, FALSE)
  /\ pc' = [pc EXCEPT !.event = "vsync_disabled"]
  /\ last' = NoOp
  /\ UNCHANGED <<init, d, call, dpps, res>>

\* VSync at line 925: pending_vsync_enable_ = true
VSyncPending_ ==
  /\ pc.event = "vsync_disabled"
  /\ d' = SetVsyncStatusPending(d, FALSE)
  /\ pc' = [pc EXCEPT !.event = "idle"]
  /\ last' = [op |-> "VSync", propagate |-> FALSE]
  /\ UNCHANGED <<init, hw, call, dpps, res>>

\* DisplayBase::SetVSyncState: the client's vsync-enable setting and the
\* subscription follow the request
SetVSyncState(dd, hwst, enable) ==
  [d |-> [dd EXCEPT !.vsync_enable_ = enable],
   hw |-> [hwst EXCEPT !.vsync = enable]]

\* DisplayBase::SetVSyncState under the display lock
SetVSyncState_(enable) ==
  /\ DisplayReady
  /\ call = NoCall
  /\ \E r \in {SetVSyncState(d, hw, enable)} : d' = r.d /\ hw' = r.hw
  /\ last' = [op |-> "SetVSyncState", enable |-> enable]
  /\ UNCHANGED <<init, call, pc, dpps, res>>

\* DisplayBuiltIn::IdleTimeout on the event thread, lines 931-937: the part
\* before ClientLock is taken at line 939.  It runs whether or not the client
\* is inside a frame operation.
IdleTimeoutUnlocked_(env) ==
  /\ DisplayReady
  /\ pc.event = "idle"
  /\ LET r == IdleTimeout(d, env)
         locked == \E i \in DOMAIN r.calls : r.calls[i] = "comp.ProcessIdleTimeout"
     IN /\ d' = r.d
        /\ pc' = [pc EXCEPT !.event = IF locked THEN "idle_timeout" ELSE "idle"]
        /\ last' = [op |-> "IdleTimeout", calls |-> IF locked THEN <<>> ELSE r.calls]
  /\ UNCHANGED <<init, hw, call, dpps, res>>

\* lines 938-942: ProcessIdleTimeout under ClientLock, which waits for the
\* client to leave its operation
IdleTimeoutLocked_ ==
  /\ pc.event = "idle_timeout"
  /\ call = NoCall
  /\ pc' = [pc EXCEPT !.event = "idle"]
  /\ last' = [op |-> "IdleTimeout", calls |-> IdleTimeout(d, [accept |-> TRUE]).calls]
  /\ UNCHANGED <<init, d, hw, call, dpps, res>>

\* lines 951-955 (ThermalEvent): validated_ is cleared under ClientLock
InvalidateLocked(dd) == [dd EXCEPT !.validated_ = FALSE]

\* lines 976-980 of PanelDead: the block under ClientLock
PanelDeadLocked(dd) == [dd EXCEPT !.reset_panel_ = TRUE, !.validated_ = FALSE]

\* lines 981-982 of PanelDead: the calls on event_handler_, in order
PanelDeadCalls == <<"HandleEvent(kPanelDeadEvent)", "Refresh">>

\* DisplayBuiltIn::ThermalEvent on the event thread
ThermalEvent_ ==
  /\ DisplayReady
  /\ pc.event = "idle"
  /\ call = NoCall
  /\ d' = InvalidateLocked(d)
  /\ last' = [op |-> "ThermalEvent"]
  /\ UNCHANGED <<init, hw, call, pc, dpps, res>>

\* DisplayBuiltIn::PanelDead on the event thread
PanelDead_ ==
  /\ DisplayReady
  /\ pc.event = "idle"
  /\ call = NoCall
  /\ d' = PanelDeadLocked(d)
  /\ last' = [op |-> "PanelDead", calls |-> PanelDeadCalls]
  /\ UNCHANGED <<init, hw, call, pc, dpps, res>>

\* PanelDead up to line 980: the event thread has taken disp_mutex_, marked
\* the panel and released the lock
PanelDeadLocked_ ==
  /\ DisplayReady
  /\ pc.event = "idle"
  /\ call = NoCall
  /\ d' = PanelDeadLocked(d)
  /\ pc' = [pc EXCEPT !.event = "panel_dead"]
  /\ last' = NoOp
  /\ UNCHANGED <<init, hw, call, dpps, res>>

\* PanelDead, lines 981-982: the notification and the refresh request,
\* whether or not the client is inside an operation
PanelDeadNotify_ ==
  /\ pc.event = "panel_dead"
  /\ pc' = [pc EXCEPT !.event = "idle"]
  /\ last' = [op |-> "PanelDead", calls |-> PanelDeadCalls]
  /\ UNCHANGED <<init, d, hw, call, dpps, res>>

\* DisplayBuiltIn::ControlPartialUpdate
ControlPartialUpdate_(enable, pending, env) ==
  /\ DisplayReady
  /\ call = NoCall
  /\ \E r \in {ControlPartialUpdate(d, enable, pending, env)} :
        /\ d' = r.d
        /\ last' = [op |-> "ControlPartialUpdate", enable |-> enable,
                    null |-> pending.null,
                    disable_pu |-> env.dpps_disable_pu,
                    error |-> r.error, pending |-> r.pending]
  /\ UNCHANGED <<init, hw, call, pc, dpps, res>>

kErrorTimeOut == "kErrorTimeOut"

\* DppsProcessOps(kDppsPartialUpdate) on the DPPS thread, lines 1145-1148:
\* dpps_info_.disable_pu_ = !enable, then ControlPartialUpdate under
\* ClientLock, then Refresh
DppsControlPartialUpdate_(enable) ==
  /\ DisplayReady
  /\ pc.dpps = "idle"
  /\ call = NoCall
  /\ d' = ControlPartialUpdateLocked(d, enable, [dpps_disable_pu |-> ~enable]).d
  /\ pc' = [pc EXCEPT !.dpps = "marking"]
  /\ UNCHANGED <<init, hw, call, last, dpps, res>>

\* lines 1149-1154: the request is marked pending under ClientLock
DppsMarkPending_ ==
  /\ pc.dpps = "marking"
  /\ call = NoCall
  /\ d' = [d EXCEPT !.validated_ = FALSE, !.dpps_pu_nofiy_pending_ = TRUE]
  /\ pc' = [pc EXCEPT !.dpps = "before_wait"]
  /\ UNCHANGED <<init, hw, call, last, dpps, res>>

\* line 1155: the thread enters dpps_pu_lock_.WaitFinite(kPuTimeOutMs)
DppsWait_ ==
  /\ pc.dpps = "before_wait"
  /\ pc' = [pc EXCEPT !.dpps = "waiting"]
  /\ UNCHANGED <<init, d, hw, call, last, dpps, res>>

\* lines 1155-1160: WaitFinite returns 0 after a broadcast
DppsWoken_ ==
  /\ pc.dpps = "woken"
  /\ pc' = [pc EXCEPT !.dpps = "idle"]
  /\ last' = [op |-> "DppsProcessOps", error |-> kErrorNone]
  /\ UNCHANGED <<init, d, hw, call, dpps, res>>

\* lines 1155-1160: WaitFinite returns non-zero when kPuTimeOutMs has passed
\* without a broadcast reaching the waiter
DppsTimeOut_ ==
  /\ pc.dpps = "waiting"
  /\ pc' = [pc EXCEPT !.dpps = "idle"]
  /\ last' = [op |-> "DppsProcessOps", error |-> kErrorTimeOut]
  /\ UNCHANGED <<init, d, hw, call, dpps, res>>

\* DisplayBuiltIn::DisablePartialUpdateOneFrame
DisablePartialUpdateOneFrame_ ==
  /\ DisplayReady
  /\ call = NoCall
  /\ d' = DisablePartialUpdateOneFrame(d)
  /\ last' = [op |-> "DisablePartialUpdateOneFrame", error |-> kErrorNone]
  /\ UNCHANGED <<init, hw, call, pc, dpps, res>>

----------------------------------------------------------------------------
(* Specification of Init alone: every combination of collaborator outcomes. *)

DefaultPanel ==
  [mode |-> kModeVideo, dynamic_fps |-> TRUE, qsync_support |-> TRUE,
   partial_update |-> TRUE, left_roi_count |-> 1,
   min_fps |-> PanelMinFps, max_fps |-> PanelMaxFps,
   panel_min_brightness |-> 0, panel_max_brightness |-> PanelMaxBrightness]

DefaultCfg ==
  [panel |-> DefaultPanel, defer_fps_frame_count |-> 0,
   disable_dynamic_fps |-> FALSE, enable_qsync_idle |-> FALSE,
   enhance_idle_time |-> FALSE, dest_scaler |-> FALSE]

InitFailures == {kErrorNone, kErrorHardware}

SprOutcomes ==
  { [spr_prop |-> FALSE, spr_create |-> TRUE, spr_init |-> TRUE],
    [spr_prop |-> TRUE, spr_create |-> FALSE, spr_init |-> TRUE],
    [spr_prop |-> TRUE, spr_create |-> TRUE, spr_init |-> FALSE],
    [spr_prop |-> TRUE, spr_create |-> TRUE, spr_init |-> TRUE] }

InitInput(hc, bi, ec, pf, spr, dm, cfg) ==
  [hw_create |-> hc, base_init |-> bi, events_create |-> ec, pf |-> pf,
   spr_prop |-> spr.spr_prop, spr_create |-> spr.spr_create,
   spr_init |-> spr.spr_init, demura |-> dm,
   demura_hw |-> (dm # "status_off"), cfg |-> cfg]

AllInitInputs ==
  { InitInput(hc, bi, ec, pf, spr, dm, DefaultCfg) :
      hc \in InitFailures, bi \in InitFailures, ec \in InitFailures,
      pf \in BOOLEAN, spr \in SprOutcomes, dm \in DemuraOutcomes }

StartState ==
  /\ init = [done |-> FALSE]
  /\ d = Constructed
  /\ hw = HardwareNew(Constructed.hw_panel_info_, 0, 0)
  /\ call = [op |-> "none"]
  /\ last = NoOp
  /\ pc = NoHandler
  /\ dpps = DppsInfoNew
  /\ res = ResourceDefaultNew

InitAny == \E in \in AllInitInputs : Init_(in)

NextInit == InitAny

SpecInit == StartState /\ [][NextInit]_vars

----------------------------------------------------------------------------
(* Specification of the frame path: Prepare with its fast path, PostCommit  *)
(* and the partial-update controls, on a display whose Init succeeded.      *)

MaxAppLayers == 2

RectA == Rect(0, 0, 4, 4)
RectB == Rect(0, 0, 2, 4)

\* the frame ROIs the allocator may compute: none, or one left and one right
FrameROIs ==
  { [left |-> <<>>, right |-> <<>>],
    [left |-> <<RectA>>, right |-> <<RectA>>],
    [left |-> <<RectA>>, right |-> <<RectB>>] }

CleanLayer ==
  [composition |-> kCompositionGPU, update_mask |-> {}, ndirty |-> 1, damage |-> 0,
   is_noise |-> FALSE]
DamagedLayer ==
  [composition |-> kCompositionGPU, update_mask |-> {kSurfaceDamage}, ndirty |-> 1, damage |-> 0,
   is_noise |-> FALSE]

AppLayerValues ==
  { CleanLayer,
    DamagedLayer,
    [composition |-> kCompositionGPU, update_mask |-> {kSurfaceDamage}, ndirty |-> 2, damage |-> 0,
   is_noise |-> FALSE],
    [composition |-> kCompositionGPU,
     update_mask |-> {kSurfaceDamage, kMetadataUpdate}, ndirty |-> 1, damage |-> 0,
   is_noise |-> FALSE] }

GPUTargetLayer ==
  [composition |-> kCompositionGPUTarget, update_mask |-> {}, ndirty |-> 1, damage |-> 0,
   is_noise |-> FALSE]
StitchTargetLayer ==
  [composition |-> kCompositionStitchTarget, update_mask |-> {}, ndirty |-> 1, damage |-> 0,
   is_noise |-> FALSE]

\* the application's layers: any first layer, unchanged layers above it
AppLayerSeqs ==
  { <<v>> \o [i \in 1..n |-> CleanLayer] :
      v \in AppLayerValues, n \in 0..(MaxAppLayers - 1) }

QuietEnv ==
  [safe_mode |-> FALSE, mixer_reconfig |-> FALSE, color_pu_disable |-> FALSE,
   base_preprepare |-> kErrorNotValidated, spr_ok |-> TRUE,
   prepare |-> kErrorNone, roi |-> [left |-> <<RectA>>, right |-> <<RectA>>]]

\* one frame: the client's layer stack and the collaborators' answers, at
\* most one of them away from the quiet frame
FrameVariations ==
  {"none", "geometry_changed", "skip_present", "needs_validate", "stitch",
   "demura_present", "safe_mode", "mixer_reconfig", "color_pu_disable",
   "prepare_fail"}

FrameStack(app, v) ==
  [layers |-> app \o <<GPUTargetLayer>>
                \o (IF v = "stitch" THEN <<StitchTargetLayer>> ELSE <<>>),
   flags |-> [geometry_changed |-> (v = "geometry_changed"),
              skip_present |-> (v = "skip_present"),
              stitch_present |-> (v = "stitch"),
              demura_present |-> (v = "demura_present")],
   needs_validate |-> (v = "needs_validate")]

FrameEnv(v, roi) ==
  [QuietEnv EXCEPT !.safe_mode = (v = "safe_mode"),
                   !.mixer_reconfig = (v = "mixer_reconfig"),
                   !.color_pu_disable = (v = "color_pu_disable"),
                   !.prepare = IF v = "prepare_fail" THEN kErrorResources
                               ELSE kErrorNone,
                   !.roi = roi]

QuietRecEnv ==
  [hw_query |-> kErrorNone, comp_reconfig |-> kErrorNone,
   brightness |-> kErrorNone, dpps_disable_pu |-> FALSE,
   dpps |-> QuietDppsEnv]

FramePanels ==
  { DefaultPanel,
    [DefaultPanel EXCEPT !.partial_update = FALSE],
    [DefaultPanel EXCEPT !.left_roi_count = 2] }

FrameInitInputs ==
  { InitInput(kErrorNone, kErrorNone, kErrorNone, FALSE, CHOOSE o \in SprOutcomes : ~o.spr_prop,
              "status_off", [DefaultCfg EXCEPT !.panel = p]) : p \in FramePanels }
  \cup
  { InitInput(kErrorNone, kErrorNone, kErrorNone, FALSE, CHOOSE o \in SprOutcomes : ~o.spr_prop,
              "status_off", [DefaultCfg EXCEPT !.dest_scaler = TRUE]),
    InitInput(kErrorNone, kErrorNone, kErrorNone, TRUE, CHOOSE o \in SprOutcomes : ~o.spr_prop,
              "ok", DefaultCfg) }

InitFrame == \E in \in FrameInitInputs : Init_(in)

\* the frames the client submits: any layers and any ROI in a quiet frame,
\* and each variation on a damaged first layer
Frames ==
  { [app |-> a, v |-> "none", roi |-> r] : a \in AppLayerSeqs, r \in FrameROIs }
  \cup
  { [app |-> a, v |-> v, roi |-> QuietEnv.roi] :
      a \in {x \in AppLayerSeqs : x[1] = DamagedLayer},
      v \in FrameVariations \ {"none"} }

CallPrepareFrame ==
  \E f \in Frames :
    /\ d.phase = "idle"
    /\ Call([op |-> "Prepare", ls |-> FrameStack(f.app, f.v),
             env |-> FrameEnv(f.v, f.roi)])

QuietCommitEnv == [frame_trigger |-> kErrorNone, commit |-> kErrorNone]

\* the commit of a frame without single-buffered layers, which succeeds
CommitQuiet == Commit_(FALSE, QuietCommitEnv)

PostCommitFrame == PostCommit_(QuietRecEnv)

ControlPartialUpdateFrame ==
  \E enable \in BOOLEAN : ControlPartialUpdate_(enable, Out(0), [dpps_disable_pu |-> FALSE])

NextFrame ==
  \/ InitFrame
  \/ CallPrepareFrame
  \/ Prepare_
  \/ CommitQuiet
  \/ PostCommitFrame
  \/ ControlPartialUpdateFrame
  \/ DisablePartialUpdateOneFrame_

SpecFrame == StartState /\ [][NextFrame]_vars

----------------------------------------------------------------------------
(* SpecPartial: the frames of SpecFrame with every kind of request to       *)
(* ControlPartialUpdate.                                                    *)

\* a null pointer and pointers to an integer that holds 0 or 1
OutParams == {NullOut, Out(0), Out(1)}

ControlPartialUpdatePartial ==
  \E enable \in BOOLEAN, pending \in OutParams, dis \in BOOLEAN :
     ControlPartialUpdate_(enable, pending, [dpps_disable_pu |-> dis])

NextPartial ==
  \/ InitFrame
  \/ CallPrepareFrame
  \/ Prepare_
  \/ CommitQuiet
  \/ PostCommitFrame
  \/ ControlPartialUpdatePartial
  \/ DisablePartialUpdateOneFrame_

SpecPartial == StartState /\ [][NextPartial]_vars

----------------------------------------------------------------------------
(* Specification of the refresh-rate path: SetRefreshRate with idle         *)
(* timeouts, adaptive-sync requests and frames around it.                   *)

DeferFrameCount == 2
RequestFps == 90

RatePanel ==
  [DefaultPanel EXCEPT !.partial_update = FALSE, !.qsync_support = FALSE]
RateCfg == [DefaultCfg EXCEPT !.panel = RatePanel]

\* the display configurations: the plain one, and one property or panel
\* capability away from it
RateConfigs ==
  { RateCfg,
    [RateCfg EXCEPT !.panel.qsync_support = TRUE],
    [RateCfg EXCEPT !.panel.qsync_support = TRUE, !.enable_qsync_idle = TRUE],
    [RateCfg EXCEPT !.enhance_idle_time = TRUE],
    [RateCfg EXCEPT !.defer_fps_frame_count = DeferFrameCount],
    [RateCfg EXCEPT !.defer_fps_frame_count = DeferFrameCount,
                    !.enhance_idle_time = TRUE],
    [RateCfg EXCEPT !.disable_dynamic_fps = TRUE],
    [RateCfg EXCEPT !.panel.dynamic_fps = FALSE] }

RateInitInputs ==
  { InitInput(kErrorNone, kErrorNone, kErrorNone, FALSE,
              CHOOSE o \in SprOutcomes : ~o.spr_prop, "status_off", c) :
      c \in RateConfigs }

InitRate == \E in \in RateInitInputs : Init_(in)

RateValues ==
  {PanelMinFps - 8, PanelMinFps, RequestFps, PanelMaxFps, PanelMaxFps + 10}

QuietRateEnv ==
  [elapsed |-> TRUE, hw_set |-> kErrorNone, enforce_split |-> kErrorNone,
   hw_query |-> kErrorNone, comp_reconfig |-> kErrorNone]

\* the collaborators' answers with one failure among them
FailingRateEnvs ==
  { [QuietRateEnv EXCEPT !.hw_set = kErrorHardware],
    [QuietRateEnv EXCEPT !.enforce_split = kErrorResources],
    [QuietRateEnv EXCEPT !.hw_query = kErrorHardware],
    [QuietRateEnv EXCEPT !.comp_reconfig = kErrorResources] }

\* the calls of SetRefreshRate: every rate with every flag while the
\* collaborators succeed, and the in-range rates with one collaborator failing
RateCalls ==
  { [op |-> "SetRefreshRate", refresh_rate |-> r, final_rate |-> f,
     idle_screen |-> i.idle_screen,
     env |-> [QuietRateEnv EXCEPT !.elapsed = i.elapsed]] :
      r \in RateValues, f \in BOOLEAN,
      i \in { [idle_screen |-> FALSE, elapsed |-> FALSE],
              [idle_screen |-> TRUE, elapsed |-> FALSE],
              [idle_screen |-> TRUE, elapsed |-> TRUE] } }
  \cup
  { [op |-> "SetRefreshRate", refresh_rate |-> r, final_rate |-> f,
     idle_screen |-> TRUE, env |-> e] :
      r \in {PanelMinFps, RequestFps}, f \in BOOLEAN, e \in FailingRateEnvs }

CallSetRefreshRateRate == \E c \in RateCalls : Call(c)

\* one frame of a single damaged layer
RateFrame ==
  [op |-> "Prepare", ls |-> FrameStack(<<DamagedLayer>>, "none"), env |-> QuietEnv]

CallPrepareRate == d.phase = "idle" /\ Call(RateFrame)

PostCommitRate == PostCommit_(QuietRecEnv)

IdleTimeoutRate == \E a \in BOOLEAN : IdleTimeout_([accept |-> a])

SetQSyncModeRate ==
  \E m \in {kQSyncModeNone, kQSyncModeContinuous} : SetQSyncMode_(m)

NextRate ==
  \/ InitRate
  \/ CallSetRefreshRateRate
  \/ SetRefreshRate_
  \/ CallPrepareRate
  \/ Prepare_
  \/ CommitQuiet
  \/ PostCommitRate
  \/ IdleTimeoutRate
  \/ SetQSyncModeRate

SpecRate == StartState /\ [][NextRate]_vars

----------------------------------------------------------------------------
(* Specification of adaptive sync: client requests, the idle override and   *)
(* the frames that apply them.                                              *)

QsyncPanel == [RatePanel EXCEPT !.qsync_support = TRUE]

QsyncConfigs ==
  { [RateCfg EXCEPT !.panel = QsyncPanel],
    [RateCfg EXCEPT !.panel = QsyncPanel, !.enable_qsync_idle = TRUE],
    [RateCfg EXCEPT !.panel = [QsyncPanel EXCEPT !.mode = kModeCommand],
                    !.enable_qsync_idle = TRUE],
    RateCfg }

QsyncInitInputs ==
  { InitInput(kErrorNone, kErrorNone, kErrorNone, FALSE,
              CHOOSE o \in SprOutcomes : ~o.spr_prop, "status_off", c) :
      c \in QsyncConfigs }

InitQsync == \E in \in QsyncInitInputs : Init_(in)

\* a frame the allocator validates, and one it refuses
QsyncFrames ==
  { RateFrame, [RateFrame EXCEPT !.env.prepare = kErrorResources] }

CallPrepareQsync == \E f \in QsyncFrames : d.phase = "idle" /\ Call(f)

SetQSyncModeQsync == \E m \in QSyncModes : SetQSyncMode_(m)

NextQsync ==
  \/ InitQsync
  \/ CallPrepareQsync
  \/ Prepare_
  \/ CommitQuiet
  \/ PostCommitRate
  \/ IdleTimeoutRate
  \/ SetQSyncModeQsync

SpecQsync == StartState /\ [][NextQsync]_vars

----------------------------------------------------------------------------
(* SpecDefer: refresh-rate changes on a display that defers the lowering of *)
(* the fps, with frames whose reconfiguration can fail.                     *)

\* the display with and without the deferral of fps changes
DeferConfigs ==
  { [RateCfg EXCEPT !.defer_fps_frame_count = DeferFrameCount], RateCfg }

DeferInitInputs ==
  { InitInput(kErrorNone, kErrorNone, kErrorNone, FALSE,
              CHOOSE o \in SprOutcomes : ~o.spr_prop, "status_off", c) :
      c \in DeferConfigs }

InitDefer == \E in \in DeferInitInputs : Init_(in)

\* final rates on a screen that is not idle, with the collaborators
\* succeeding or one of them failing
DeferCalls ==
  { [op |-> "SetRefreshRate", refresh_rate |-> r, final_rate |-> TRUE,
     idle_screen |-> FALSE, env |-> e] :
      r \in {PanelMinFps, RequestFps, PanelMaxFps},
      e \in {QuietRateEnv} \cup FailingRateEnvs }

CallSetRefreshRateDefer == \E c \in DeferCalls : Call(c)

\* the answers of the hardware and of the composition manager to the
\* reconfiguration in PostCommit
DeferRecEnvs ==
  { QuietRecEnv,
    [QuietRecEnv EXCEPT !.hw_query = kErrorHardware],
    [QuietRecEnv EXCEPT !.comp_reconfig = kErrorResources] }

PostCommitDefer == \E e \in DeferRecEnvs : PostCommit_(e)

NextDefer ==
  \/ InitDefer
  \/ CallSetRefreshRateDefer
  \/ SetRefreshRate_
  \/ CallPrepareRate
  \/ Prepare_
  \/ CommitQuiet
  \/ PostCommitDefer

SpecDefer == StartState /\ [][NextDefer]_vars
----------------------------------------------------------------------------
(* SpecApply: SpecDefer with the display switched on and off and with       *)
(* changes of the active configuration.                                     *)

\* the two configurations of the hardware, with the collaborators succeeding
\* or one of them failing
ConfigCalls ==
  { [op |-> "SetActiveConfig", index |-> i, env |-> e] :
      i \in {0, 1},
      e \in { QuietRateEnv,
              [QuietRateEnv EXCEPT !.hw_set = kErrorHardware],
              [QuietRateEnv EXCEPT !.hw_query = kErrorHardware],
              [QuietRateEnv EXCEPT !.comp_reconfig = kErrorResources] } }

CallSetActiveConfigApply == \E c \in ConfigCalls : Call(c)

SetDisplayStateApply ==
  \E st \in {kStateOn, kStateOff}, e \in {kErrorNone, kErrorHardware} :
     SetDisplayState_(st, [base_state |-> e])

NextApply ==
  \/ InitDefer
  \/ CallSetRefreshRateDefer
  \/ SetRefreshRate_
  \/ CallSetActiveConfigApply
  \/ SetActiveConfig_
  \/ SetDisplayStateApply
  \/ CallPrepareRate
  \/ Prepare_
  \/ CommitQuiet
  \/ PostCommitDefer

SpecApply == StartState /\ [][NextApply]_vars


----------------------------------------------------------------------------
(* SpecBright: brightness requests, read-backs and backlight events between *)
(* frames, with a driver that accepts, defers or refuses.                   *)

BrightnessSteps == 4

\* the brightness ranges of the panel: from zero, from one, a single step,
\* and an empty range
BrightRanges ==
  { [min |-> 0, max |-> PanelMaxBrightness],
    [min |-> 1, max |-> PanelMaxBrightness],
    [min |-> PanelMaxBrightness - 1, max |-> PanelMaxBrightness],
    [min |-> PanelMaxBrightness, max |-> PanelMaxBrightness] }

BrightConfigs ==
  { [RateCfg EXCEPT !.panel.panel_min_brightness = r.min,
                    !.panel.panel_max_brightness = r.max] : r \in BrightRanges }

BrightInitInputs ==
  { InitInput(kErrorNone, kErrorNone, kErrorNone, FALSE,
              CHOOSE o \in SprOutcomes : ~o.spr_prop, "status_off", c) :
      c \in BrightConfigs }

InitBright == \E in \in BrightInitInputs : Init_(in)

\* the floats nearest to k/BrightnessSteps, a brightness below one level of
\* the widest range, "off", and a value out of range
BrightnessValues ==
  { Round(k, BrightnessSteps) : k \in 0..BrightnessSteps }
  \cup { Round(1, 2 * PanelMaxBrightness), MinusOne, Frac(3, 2) }

DriverAnswers == {kErrorNone, kErrorDeferred, kErrorHardware}

SetPanelBrightnessBright ==
  \E b \in BrightnessValues, st \in DriverAnswers : SetPanelBrightness_(b, st)

GetPanelBrightnessBright ==
  \E st \in {kErrorNone, kErrorHardware} : GetPanelBrightness_(st)

HandleBacklightEventBright ==
  \E l \in {0, 1, PanelMaxBrightness, PanelMaxBrightness + 1}, ipc \in BOOLEAN :
     HandleBacklightEvent_(Frac(l, 1), ipc)

PostCommitBright ==
  \E st \in DriverAnswers : PostCommit_([QuietRecEnv EXCEPT !.brightness = st])

NextBright ==
  \/ InitBright
  \/ SetPanelBrightnessBright
  \/ GetPanelBrightnessBright
  \/ HandleBacklightEventBright
  \/ CallPrepareRate
  \/ Prepare_
  \/ CommitQuiet
  \/ PostCommitBright

SpecBright == StartState /\ [][NextBright]_vars

----------------------------------------------------------------------------
(* SpecEvents: hardware and timer events arriving on the event thread while *)
(* the client drives frames.                                                *)

InitEvents == InitQsync

VSyncEvents == \E v \in BOOLEAN : VSync_(v)

IdleTimeoutEvents == \E a \in BOOLEAN : IdleTimeoutUnlocked_([accept |-> a])

BacklightEvents ==
  \E l \in {0, PanelMaxBrightness} : HandleBacklightEvent_(Frac(l, 1), TRUE)

NextEvents ==
  \/ InitEvents
  \/ CallPrepareQsync
  \/ Prepare_
  \/ CommitQuiet
  \/ PostCommitRate
  \/ SetQSyncModeQsync
  \/ VSyncEvents
  \/ IdleTimeoutEvents
  \/ IdleTimeoutLocked_
  \/ ThermalEvent_
  \/ PanelDead_
  \/ BacklightEvents

SpecEvents == StartState /\ [][NextEvents]_vars

----------------------------------------------------------------------------
(* SpecRace: brightness requests and backlight events on other threads,     *)
(* interleaved with the two lock scopes of PostCommit.                      *)

InitRace ==
  \E in \in BrightInitInputs :
     /\ in.cfg.panel.panel_min_brightness = 0
     /\ Init_(in)

SetPanelBrightnessRace ==
  \E b \in {Frac(1, 2), One}, st \in {kErrorNone, kErrorDeferred} :
     SetPanelBrightness_(b, st)

BacklightRace ==
  \E l \in {0, PanelMaxBrightness} : HandleBacklightEvent_(Frac(l, 1), TRUE)

PostCommitRetryRace ==
  \E st \in {kErrorNone, kErrorDeferred} :
     PostCommitRetry_([QuietRecEnv EXCEPT !.brightness = st])

NextRace ==
  \/ InitRace
  \/ CallPrepareRate
  \/ Prepare_
  \/ CommitQuiet
  \/ PostCommitRetryRace
  \/ PostCommitRest_
  \/ SetPanelBrightnessRace
  \/ BacklightRace

SpecRace == StartState /\ [][NextRace]_vars

----------------------------------------------------------------------------
(* SpecDpps: partial-update toggles from the DPPS thread while the client   *)
(* drives frames.                                                           *)

InitDpps == \E in \in FrameInitInputs : Init_(in)

DppsRequests == \E enable \in BOOLEAN : DppsControlPartialUpdate_(enable)

ControlPartialUpdateDpps ==
  \E enable \in BOOLEAN :
     ControlPartialUpdate_(enable, Out(0), [dpps_disable_pu |-> FALSE])

NextDpps ==
  \/ InitDpps
  \/ CallPrepareRate
  \/ Prepare_
  \/ CommitQuiet
  \/ PostCommitRate
  \/ ControlPartialUpdateDpps
  \/ DppsRequests
  \/ DppsMarkPending_
  \/ DppsWait_
  \/ DppsWoken_
  \/ DppsTimeOut_

SpecDpps == StartState /\ [][NextDpps]_vars

----------------------------------------------------------------------------
(* SpecIdle: idle timeouts on video-mode and command-mode panels, with and  *)
(* without the policy of waiting for static content, between frames.        *)

IdleConfigs ==
  { RateCfg,
    [RateCfg EXCEPT !.enhance_idle_time = TRUE],
    [RateCfg EXCEPT !.panel.mode = kModeCommand],
    [RateCfg EXCEPT !.panel.mode = kModeCommand, !.enhance_idle_time = TRUE],
    [RateCfg EXCEPT !.panel.qsync_support = TRUE, !.enable_qsync_idle = TRUE] }

IdleInitInputs ==
  { InitInput(kErrorNone, kErrorNone, kErrorNone, FALSE,
              CHOOSE o \in SprOutcomes : ~o.spr_prop, "status_off", c) :
      c \in IdleConfigs }

InitIdle == \E in \in IdleInitInputs : Init_(in)

NextIdle ==
  \/ InitIdle
  \/ CallPrepareQsync
  \/ Prepare_
  \/ CommitQuiet
  \/ PostCommitRate
  \/ IdleTimeoutRate
  \/ SetQSyncModeRate

SpecIdle == StartState /\ [][NextIdle]_vars

----------------------------------------------------------------------------
(* SpecMode: switches between video and command mode, on an active or       *)
(* inactive display, with frames and partial-update requests around them.   *)

ModeConfigs ==
  { DefaultCfg, [DefaultCfg EXCEPT !.panel.mode = kModeCommand] }

ModeInitInputs ==
  { InitInput(kErrorNone, kErrorNone, kErrorNone, FALSE,
              CHOOSE o \in SprOutcomes : ~o.spr_prop, "status_off", c) :
      c \in ModeConfigs }

InitMode == \E in \in ModeInitInputs : Init_(in)

QuietModeEnv ==
  [hw_set |-> kErrorNone, hw_query |-> kErrorNone, dpps_disable_pu |-> FALSE]

\* the calls of SetDisplayMode: each mode, and a value that is no mode, while
\* the collaborators succeed; and each mode with one collaborator failing
ModeCalls ==
  { [op |-> "SetDisplayMode", mode |-> m, env |-> QuietModeEnv] :
      m \in {kModeVideo, kModeCommand, kModeDefault} }
  \cup
  { [op |-> "SetDisplayMode", mode |-> m, env |-> e] :
      m \in {kModeVideo, kModeCommand},
      e \in { [QuietModeEnv EXCEPT !.hw_set = kErrorHardware],
              [QuietModeEnv EXCEPT !.hw_query = kErrorHardware] } }

CallSetDisplayModeMode == \E c \in ModeCalls : Call(c)

SetDisplayStateMode ==
  \E st \in {kStateOn, kStateOff} :
     SetDisplayState_(st, [base_state |-> kErrorNone])

\* the frame's PostCommit, with partial update disabled by DPPS or not
PostCommitRetryMode ==
  \E dis \in BOOLEAN :
     PostCommitRetry_([QuietRecEnv EXCEPT !.dpps_disable_pu = dis])

ControlPartialUpdateMode ==
  \E enable \in BOOLEAN :
     ControlPartialUpdate_(enable, Out(0), [dpps_disable_pu |-> FALSE])

NextMode ==
  \/ InitMode
  \/ CallSetDisplayModeMode
  \/ SetDisplayMode_
  \/ SetDisplayStateMode
  \/ CallPrepareRate
  \/ Prepare_
  \/ CommitQuiet
  \/ PostCommitRetryMode
  \/ PostCommitRest_
  \/ ControlPartialUpdateMode

SpecMode == StartState /\ [][NextMode]_vars

----------------------------------------------------------------------------
\* The vsync subscription: frames on the client thread and vsync pulses on
\* the event thread, which takes no lock

VsyncConfigs ==
  { RateCfg,
    [RateCfg EXCEPT !.panel.qsync_support = TRUE, !.enable_qsync_idle = TRUE] }

VsyncInitInputs ==
  { InitInput(kErrorNone, kErrorNone, kErrorNone, FALSE,
              CHOOSE o \in SprOutcomes : ~o.spr_prop, "status_off", c) :
      c \in VsyncConfigs }

InitVsync == \E in \in VsyncInitInputs : Init_(in)

SetVSyncStateVsync == \E enable \in BOOLEAN : SetVSyncState_(enable)

VSyncDisableVsync == \E drop \in BOOLEAN : VSyncDisable_(drop)

PostCommitRetryQuiet == PostCommitRetry_(QuietRecEnv)

NextVsync ==
  \/ InitVsync
  \/ CallPrepareQsync
  \/ Prepare_
  \/ CommitQuiet
  \/ PostCommitRetryQuiet
  \/ PostCommitHead_
  \/ PostCommitTail_
  \/ SetVSyncStateVsync
  \/ SetQSyncModeRate
  \/ VSyncDisableVsync
  \/ VSyncPending_

SpecVsync == StartState /\ [][NextVsync]_vars

----------------------------------------------------------------------------
(* SpecPulse: vsync pulses while the client switches its vsync on and off   *)
(* and changes the adaptive-sync mode between frames.                       *)

NextPulse ==
  \/ InitQsync
  \/ CallPrepareQsync
  \/ Prepare_
  \/ CommitQuiet
  \/ PostCommitRate
  \/ SetQSyncModeQsync
  \/ SetVSyncStateVsync
  \/ VSyncEvents

SpecPulse == StartState /\ [][NextPulse]_vars

----------------------------------------------------------------------------
\* The panel-dead event among frames that can take the fast path

PanelInitInputs ==
  { InitInput(kErrorNone, kErrorNone, kErrorNone, FALSE,
              CHOOSE o \in SprOutcomes : ~o.spr_prop, "status_off", DefaultCfg) }

InitPanel == \E in \in PanelInitInputs : Init_(in)

NextPanel ==
  \/ InitPanel
  \/ CallPrepareFrame
  \/ Prepare_
  \/ CommitQuiet
  \/ PostCommitFrame
  \/ PanelDeadLocked_
  \/ PanelDeadNotify_

SpecPanel == StartState /\ [][NextPanel]_vars

----------------------------------------------------------------------------
\* DppsInfo across displays: each display's PostCommit initialises it, each
\* display's Deinit deinitialises it

DppsEnvs ==
  [get_info : {kErrorNone, kErrorHardware}, lib : DppsLibAnswers,
   init : {kErrorNone, kErrorUndefined}]

DppsInfoInitAny == \E id \in DisplayIds, env \in DppsEnvs : DppsInfoInit_(id, env)

DeinitAny == \E id \in DisplayIds : Deinit_(id)

DppsNotifyOpsAny == \E id \in DisplayIds : DppsNotifyOps_(id)

NextDppsInfo ==
  \/ DppsInfoInitAny
  \/ DeinitAny
  \/ DppsNotifyOpsAny

SpecDppsInfo == StartState /\ [][NextDppsInfo]_vars

----------------------------------------------------------------------------
\* The layer-stack statistics of any submitted stack of a few layers

MaxStatLayers == 5

NoiseLayer == [CleanLayer EXCEPT !.is_noise = TRUE]

\* one layer of each kind, and a GPU target that also says is_noise
StatLayers ==
  { CleanLayer, GPUTargetLayer, StitchTargetLayer, demura_layer_, NoiseLayer,
    [GPUTargetLayer EXCEPT !.is_noise = TRUE] }

StatStacks ==
  { [FrameStack(<<>>, "none") EXCEPT !.layers = q] :
      q \in UNION { [1..n -> StatLayers] : n \in 0..MaxStatLayers } }

\* the statistics of the first stack a constructed display is given
CallStats ==
  /\ d = Constructed
  /\ call = NoCall
  /\ \E ls \in StatStacks :
        /\ call' = [op |-> "BuildLayerStackStats", ls |-> ls]
        /\ last' = NoOp
  /\ UNCHANGED <<init, d, hw, pc, dpps, res>>

NextStats ==
  \/ CallStats
  \/ BuildLayerStackStats_

SpecStats == StartState /\ [][NextStats]_vars

----------------------------------------------------------------------------
\* Commit with a frame-trigger override and the client's vsync setting

FrameTriggerModes ==
  {kFrameTriggerDefault, kFrameTriggerSerialize, kFrameTriggerPostedStart,
   kFrameTriggerMax}

CommitConfigs == {RateCfg, [RateCfg EXCEPT !.panel.mode = kModeCommand]}

CommitInitInputs ==
  { InitInput(kErrorNone, kErrorNone, kErrorNone, FALSE,
              CHOOSE o \in SprOutcomes : ~o.spr_prop, "status_off", c) :
      c \in CommitConfigs }

InitCommit == \E in \in CommitInitInputs : Init_(in)

SetFrameTriggerModeCommit == \E mode \in FrameTriggerModes : SetFrameTriggerMode_(mode)

\* a commit with any answer of the hardware to the override and of the
\* underlying commit path
CommitAny ==
  \E single_buffered \in BOOLEAN, ft \in {kErrorNone, kErrorHardware},
     c \in {kErrorNone, kErrorHardware} :
       Commit_(single_buffered, [frame_trigger |-> ft, commit |-> c])

NextCommit ==
  \/ InitCommit
  \/ CallPrepareRate
  \/ Prepare_
  \/ CommitAny
  \/ PostCommitRate
  \/ SetFrameTriggerModeCommit
  \/ SetVSyncStateVsync

SpecCommit == StartState /\ [][NextCommit]_vars

----------------------------------------------------------------------------
\* The allocator under any sequence of its operations on any displays

MaxPipesPerFrame == 2

RegisterDisplayAny ==
  \E id \in DisplayIds, b \in HWBlocks : RegisterDisplay_(id, b)

UnregisterDisplayAny == \E id \in DisplayIds : UnregisterDisplay_(id)

ResourceDefaultPrepareAny ==
  \E id \in DisplayIds, n \in 1..MaxPipesPerFrame : ResourceDefaultPrepare_(id, n)

ResourceDefaultPostCommitAny == \E id \in DisplayIds : ResourceDefaultPostCommit_(id)

ResourceDefaultPurgeAny == \E id \in DisplayIds : ResourceDefaultPurge_(id)

SetPipeOwnerAny ==
  \E i \in 1..NumPipes, o \in {kPipeOwnerUserMode, kPipeOwnerKernelMode} :
     SetPipeOwner_(i, o)

NextResource ==
  \/ RegisterDisplayAny
  \/ UnregisterDisplayAny
  \/ ResourceDefaultPrepareAny
  \/ ResourceDefaultPostCommitAny
  \/ ResourceDefaultPurgeAny
  \/ SetPipeOwnerAny

SpecResource == StartState /\ [][NextResource]_vars

----------------------------------------------------------------------------
\* The decimation of any pipe on any hardware

MaxCrop == 36

MaxDst == 2

MaxScaleDowns == {1, 2}

SetDecimationFactorAny ==
  \E crop \in 1..MaxCrop, dst \in 1..MaxDst, m \in MaxScaleDowns :
     SetDecimationFactor_(crop, dst, m)

NextDecimation == SetDecimationFactorAny

SpecDecimation == StartState /\ [][NextDecimation]_vars

----------------------------------------------------------------------------
\* Any layer on any split display

MaxSplit == 3

MaxSrcWidth == 4

SplitDisplays == (1..MaxSplit) \X (1..MaxSplit)

DisplaySplitConfigAny ==
  \E sp \in SplitDisplays, aligned \in BOOLEAN :
    \E dl \in 0 .. sp[1] + sp[2] - 1, sl \in 0..1, sw \in 1..MaxSrcWidth :
      \E dr \in dl + 1 .. sp[1] + sp[2] :
        DisplaySplitConfig_(sp[1], SrcRect(sl, 0, sl + sw, 1),
                            Rect(dl, 0, dr, 1), aligned)

NextSplit == DisplaySplitConfigAny

SpecSplit == StartState /\ [][NextSplit]_vars

----------------------------------------------------------------------------
\* Frames whose damage rectangles change from frame to frame, with and
\* without a noise layer, on a panel with partial update and adaptive sync

DamageValues == {0, 1}

SkipInitInputs ==
  { InitInput(kErrorNone, kErrorNone, kErrorNone, FALSE,
              CHOOSE o \in SprOutcomes : ~o.spr_prop, "status_off", DefaultCfg),
    InitInput(kErrorNone, kErrorNone, kErrorNone, TRUE,
              CHOOSE o \in SprOutcomes : ~o.spr_prop, "ok", DefaultCfg) }

InitSkip == \E in \in SkipInitInputs : Init_(in)

\* a damaged first layer with one or two damage rectangles of any contents,
\* alone or below an unchanged layer or a noise layer
SkipLayerSeqs ==
  { <<[DamagedLayer EXCEPT !.ndirty = n, !.damage = v]>> \o above :
      n \in 1..2, v \in DamageValues,
      above \in {<<>>, <<CleanLayer>>, <<NoiseLayer>>} }

SkipVariations == {"none", "stitch", "demura_present"}

CallPrepareSkip ==
  \E a \in SkipLayerSeqs, v \in SkipVariations :
    /\ d.phase = "idle"
    /\ Call([op |-> "Prepare", ls |-> FrameStack(a, v), env |-> QuietEnv])

SetQSyncModeSkip ==
  \E m \in {kQSyncModeNone, kQSyncModeContinuous} : SetQSyncMode_(m)

NextSkip ==
  \/ InitSkip
  \/ CallPrepareSkip
  \/ Prepare_
  \/ CommitQuiet
  \/ PostCommitFrame
  \/ SetQSyncModeSkip

SpecSkip == StartState /\ [][NextSkip]_vars

----------------------------------------------------------------------------
(* SpecDemura: the frames of SpecSkip on a display that is switched off and *)
(* on, which disables and enables demura, with the pre-check called on its  *)
(* own for a stack or a null pointer.                                       *)

DemuraLayerSeqs ==
  { <<[DamagedLayer EXCEPT !.ndirty = 1]>> \o above :
      above \in {<<>>, <<CleanLayer>>} }

\* the client's stacks, whose flags say or do not say that a demura layer
\* is present
DemuraStacks ==
  { FrameStack(a, v) : a \in DemuraLayerSeqs, v \in {"none", "demura_present"} }

CallPrepareDemura ==
  \E ls \in DemuraStacks :
    /\ d.phase = "idle"
    /\ Call([op |-> "Prepare", ls |-> ls, env |-> QuietEnv])

CallPrePrepareDemura ==
  \E ls \in DemuraStacks \cup {NullStack} :
    /\ d.phase = "idle"
    /\ Call([op |-> "PrePrepare", ls |-> ls, env |-> QuietEnv])

SetDisplayStateDemura ==
  \E st \in {kStateOn, kStateOff}, e \in {kErrorNone, kErrorHardware} :
     d.phase = "idle" /\ SetDisplayState_(st, [base_state |-> e])

NextDemura ==
  \/ InitSkip
  \/ CallPrepareDemura
  \/ Prepare_
  \/ CallPrePrepareDemura
  \/ PrePrepare_
  \/ CommitQuiet
  \/ PostCommitFrame
  \/ SetDisplayStateDemura

SpecDemura == StartState /\ [][NextDemura]_vars

----------------------------------------------------------------------------
\* Idle timeouts that arrive only while a frame is in flight, between its
\* Prepare and its PostCommit

IdleTimeoutInFlight ==
  /\ d.phase # "idle"
  /\ \E a \in BOOLEAN : IdleTimeout_([accept |-> a])

NextInFlight ==
  \/ InitQsync
  \/ CallPrepareQsync
  \/ Prepare_
  \/ CommitQuiet
  \/ PostCommitRate
  \/ SetQSyncModeQsync
  \/ IdleTimeoutInFlight

SpecInFlight == StartState /\ [][NextInFlight]_vars

----------------------------------------------------------------------------
(* Properties of Init.                                                      *)

InitTrace == init.m.trace
TraceCount(op) == Cardinality({i \in DOMAIN InitTrace : InitTrace[i] = op})
TraceHas(op) == TraceCount(op) > 0

\* an operation on the hardware interface or on the base state that follows
\* the release of that resource
UseAfterRelease ==
  \E i, j \in DOMAIN InitTrace :
    /\ i < j
    /\ \/ InitTrace[i] = "hw.Destroy" /\ InitTrace[j] \in {"hw.use", "hw.Destroy"}
       \/ InitTrace[i] = "base.Deinit" /\ InitTrace[j] \in {"base.use", "base.Deinit"}

\* one of the steps whose failure is fatal to Init has failed
FatalStepFailed ==
  \/ init.in.hw_create # kErrorNone
  \/ init.in.base_init # kErrorNone
  \/ init.in.events_create # kErrorNone
  \/ init.in.pf /\ SetupSPR(init.in) # kErrorNone

PluginSetupReached ==
  /\ init.in.hw_create = kErrorNone
  /\ init.in.base_init = kErrorNone
  /\ init.in.pf

\* C1: Init returns a non-success error code whenever the creation of the
\* hardware interface, the base-display initialisation or the creation of
\* the hardware event interface fails, whatever the later set-up steps do.
C1_InitReportsFatalFailure ==
  (init.done /\ (\/ init.in.hw_create # kErrorNone
                 \/ init.in.base_init # kErrorNone
                 \/ init.in.events_create # kErrorNone))
    => init.result # kErrorNone

\* C2: when Init fails at any step, every resource acquired so far is
\* released exactly once and nothing is done with a released resource.
C2_InitUnwindsOnce ==
  (init.done /\ FatalStepFailed)
    => /\ TraceHas("hw.Create") => TraceCount("hw.Destroy") = 1
       /\ TraceHas("base.Init") => TraceCount("base.Deinit") = 1
       /\ ~UseAfterRelease

\* C3 as stated: the failure of any panel-feature plug-in during Init
\* (SPR or demura set-up) leaves Init successful, the display initialised
\* and the feature disabled.
C3_AnyPluginFailureNonFatal ==
  (init.done /\ PluginSetupReached /\ init.in.events_create = kErrorNone
     /\ (SetupSPR(init.in) # kErrorNone \/ SetupDemuraResult(init.in) # kErrorNone))
    => /\ init.result = kErrorNone
       /\ ~TraceHas("hw.Destroy") /\ ~TraceHas("base.Deinit")

ReleasesBeforeDemura == IF init.in.events_create # kErrorNone THEN 1 ELSE 0

\* C3 amended: a failure of demura set-up does not fail Init (Init returns
\* success, releases nothing on account of it, and demura is left disabled
\* with its fetch resources freed); a failure of SPR set-up is fatal (Init
\* releases the base state and the hardware interface and returns the SPR
\* error without attempting demura set-up).
C3_DemuraFailureNonFatal ==
  /\ (init.done /\ init.m.demura_result \notin {"not_run", kErrorNone})
       => /\ init.result = kErrorNone
          /\ TraceCount("hw.Destroy") = ReleasesBeforeDemura
          /\ TraceCount("base.Deinit") = ReleasesBeforeDemura
          /\ ~init.m.demura_status
          /\ ~init.m.demura_fetch
          /\ ~init.m.demura_intf_active
  /\ (init.done /\ PluginSetupReached /\ SetupSPR(init.in) # kErrorNone)
       => /\ init.result = SetupSPR(init.in)
          /\ init.m.demura_result = "not_run"
          /\ TraceHas("hw.Destroy") /\ TraceHas("base.Deinit")

\* witness of C3: demura set-up failed after its interface had been created
C3_Witness ==
  /\ init.done
  /\ init.in.events_create = kErrorNone
  /\ init.in.demura = "intf_fail"
  /\ init.m.demura_result = kErrorUndefined
  /\ init.m.demura = "created"

----------------------------------------------------------------------------
(* Properties of the Prepare fast path.                                     *)

\* the step in which Prepare runs on the layer stack call.ls
PrepareStep == call.op = "Prepare" /\ call'.op = "none"

Called(l, c) == \E i \in DOMAIN l.calls : l.calls[i] = c

\* Prepare returned success from the pre-check, without the allocator's
\* Prepare
FastPathTaken(l) ==
  l.op = "Prepare" /\ l.error = kErrorNone /\ ~Called(l, "comp.Prepare")

\* the layers Prepare examines: the client's, and the demura layer the
\* display adds while demura is active
SubmittedCount(dd, ls) ==
  Len(ls.layers) + (IF dd.demura_status /\ dd.demura_layer_fd > 0 THEN 1 ELSE 0)

\* the GPU target, and the stitch and demura targets the stack's flags announce
SyntheticCount(ls) ==
  1 + (IF ls.flags.stitch_present THEN 1 ELSE 0)
    + (IF ls.flags.demura_present THEN 1 ELSE 0)

CountMatches(dd, ls) ==
  SubmittedCount(dd, ls) = dd.disp_layer_stack_.app_layer_count + SyntheticCount(ls)

\* the frame's ROI, as the allocator computes it, is congruent to the cache
ROICongruent(dd, roi) ==
  /\ Len(roi.left) > 0 /\ Len(roi.right) > 0
  /\ IsCongruent(dd.left_frame_roi_, roi.left[1])
  /\ IsCongruent(dd.right_frame_roi_, roi.right[1])

C5_OtherBitsDisableFastPath ==
  [][ (PrepareStep /\ OtherBitLayers(call.ls) # {}) =>
        /\ ~FastPathTaken(last')
        /\ ~Called(last', "comp.GenerateROI")
        /\ (Called(last', "comp.Prepare") \/ last'.error # kErrorNone) ]_vars

\* a frame with such a layer went through full validation on a display whose
\* partial update is on
C5_Witness ==
  /\ last.op = "Prepare" /\ last.other_bits
  /\ last.error = kErrorNone /\ Called(last, "comp.Prepare")
  /\ d.hw_panel_info_.partial_update /\ d.hw_panel_info_.left_roi_count = 1
  /\ d.partial_update_control_ /\ ~d.disable_pu_on_dest_scaler_

\* what C6 requires of the frame, in the claim's words
C6_Premise ==
  /\ ~call.ls.flags.geometry_changed /\ ~call.ls.flags.skip_present
  /\ ~call.ls.needs_validate /\ ~d.needs_validate_
  /\ ~HandleDemuraLayer(d, call.ls).d.needs_validate_
  /\ d.hw_panel_info_.partial_update
  /\ CountMatches(d, call.ls)
  /\ OtherBitLayers(call.ls) = {}

\* C6 as claimed: under the premise, for any number of changed layers, zero
\* included, Prepare recomputes the ROI through the allocator and, if it is
\* congruent to the cached one, skips full validation.
C6_AnyNumberOfChangedLayers ==
  [][ (PrepareStep /\ C6_Premise) =>
        /\ Called(last', "comp.GenerateROI")
        /\ (ROICongruent(d, call.env.roi) => FastPathTaken(last')) ]_vars

\* every hardware layer of the previous frame has as many dirty regions as
\* the submitted layer it was built from
DirtyCountsMatch(dd, ls) ==
  \A j \in DOMAIN dd.disp_layer_stack_.hw_layers :
    /\ dd.disp_layer_stack_.index[j] \in DOMAIN ls.layers
    /\ dd.disp_layer_stack_.hw_layers[j].ndirty
         = ls.layers[dd.disp_layer_stack_.index[j]].ndirty

\* C6 as the code has it: the premise, and also at least one layer reporting
\* surface damage, no safe mode, one panel ROI, partial update enabled and
\* not disabled, no mixer reconfiguration; then the ROI is recomputed, and
\* validation is skipped if the ROI is congruent and the dirty-region
\* counts match.
C6_AtLeastOneDamagedLayer ==
  [][ (/\ PrepareStep /\ C6_Premise
       /\ \E i \in DOMAIN call.ls.layers :
            call.ls.layers[i].update_mask = {kSurfaceDamage}
       /\ ~call.env.safe_mode /\ ~call.env.mixer_reconfig
       /\ ~call.env.color_pu_disable
       /\ d.hw_panel_info_.left_roi_count = 1
       /\ d.partial_update_control_ /\ ~d.disable_pu_one_frame_
       /\ ~d.disable_pu_on_dest_scaler_) =>
        /\ Called(last', "comp.GenerateROI")
        /\ (ROICongruent(d, call.env.roi) /\ DirtyCountsMatch(d, call.ls)
              => FastPathTaken(last')) ]_vars

\* the ROI was recomputed, found congruent to the cached one, and
\* validation was skipped
C6_Witness ==
  /\ FastPathTaken(last) /\ Called(last, "comp.GenerateROI")
  /\ d.left_frame_roi_ = RectA /\ d.right_frame_roi_ = RectA
  /\ d.disp_layer_stack_.left_frame_roi = <<RectA>>

\* full validation of the same frame from the same members
FullValidation(dd, ls, env) ==
  Prepare([dd EXCEPT !.needs_validate_ = TRUE], ls, env)

----------------------------------------------------------------------------
(* Properties of SetRefreshRate.                                            *)

\* the step in which SetRefreshRate runs with the arguments of call
SetRefreshRateStep == call.op = "SetRefreshRate" /\ call'.op = "none"

OutOfRange(dd, r) == r < dd.hw_panel_info_.min_fps \/ r > dd.hw_panel_info_.max_fps

\* nothing was asked of the hardware or the allocator, and the rate and the
\* deferred configuration are as before
RateUntouched ==
  /\ last'.error # kErrorNone
  /\ last'.calls = <<>>
  /\ hw' = hw
  /\ d'.current_refresh_rate_ = d.current_refresh_rate_
  /\ d'.deferred_config_ = d.deferred_config_

\* C8 as claimed: SetRefreshRate returns an error, makes no hardware call
\* and leaves the rate and the deferred configuration alone when the panel
\* lacks dynamic fps, when the active qsync mode is not None (an idle-driven
\* override included), or when the rate is outside the panel's range.
C8_RejectedWhileQsyncActive ==
  [][ (/\ SetRefreshRateStep
       /\ \/ ~d.hw_panel_info_.dynamic_fps
          \/ d.active_qsync_mode_ # kQSyncModeNone
          \/ OutOfRange(d, call.refresh_rate)) => RateUntouched ]_vars

\* the conditions under which the code rejects with kErrorNotSupported
NotSupportedNow ==
  \/ ~d.active_
  \/ ~d.hw_panel_info_.dynamic_fps
  \/ d.qsync_mode_ # kQSyncModeNone
  \/ d.disable_dyn_fps_

\* C8 as the code has it: the rejection is on the mode the client requested
\* (qsync_mode_), on an inactive display, on dynamic fps disabled by property
\* and on a panel without dynamic fps, with kErrorNotSupported; otherwise on a
\* rate out of range, with kErrorParameters.  A rejected call changes
\* nothing; no other call is rejected with these errors.
C8_RejectedWhileQsyncRequested ==
  [][ SetRefreshRateStep =>
        IF NotSupportedNow
        THEN last'.error = kErrorNotSupported /\ RateUntouched /\ d' = d
        ELSE IF OutOfRange(d, call.refresh_rate)
        THEN last'.error = kErrorParameters /\ RateUntouched /\ d' = d
        ELSE last'.error \notin {kErrorNotSupported, kErrorParameters} ]_vars

\* a call was rejected because the client had requested continuous qsync
C8_Witness ==
  /\ last.op = "SetRefreshRate" /\ last.error = kErrorNotSupported
  /\ last.calls = <<>>
  /\ d.qsync_mode_ = kQSyncModeContinuous
  /\ d.hw_panel_info_.dynamic_fps /\ ~d.disable_dyn_fps_ /\ d.active_

Accepted == ~NotSupportedNow /\ ~OutOfRange(d, call.refresh_rate)

\* C9 as claimed: while the screen is idle, an accepted non-final call that
\* succeeds leaves the panel's minimum fps as the current rate, whatever the
\* configuration; a final call leaves exactly the requested rate.
C9_ClampForEveryConfiguration ==
  [][ (/\ SetRefreshRateStep /\ Accepted
       /\ d.handle_idle_timeout_ /\ call.idle_screen /\ call.env.elapsed
       /\ last'.error = kErrorNone) =>
        d'.current_refresh_rate_ =
          IF call.final_rate THEN call.refresh_rate
          ELSE d.hw_panel_info_.min_fps ]_vars

\* the code's condition for lowering the rate to the panel's minimum
ClampApplies ==
  /\ ~call.final_rate
  /\ ~d.enable_qsync_idle_
  /\ d.handle_idle_timeout_
  /\ d.enhance_idle_time_ => (call.idle_screen /\ call.env.elapsed)

TargetRate ==
  IF ClampApplies THEN d.hw_panel_info_.min_fps ELSE call.refresh_rate

\* the hardware or the allocator refuses the new rate
SetRateRefused ==
  /\ TargetRate # d.current_refresh_rate_
  /\ call.env.hw_set # kErrorNone \/ call.env.enforce_split # kErrorNone

\* C9 as the code has it: an accepted call leaves the panel's minimum fps as
\* the current rate when it is not final, an idle timeout is being handled,
\* qsync on idle is not enabled and, with enhanced idle time, the caller
\* reports an idle screen and the idle time has elapsed; in every other
\* case, a final call among them, it leaves exactly the requested rate.  A
\* call that the hardware or the allocator's split check refuses fails and
\* leaves the current rate as it was.
C9_ClampUnlessQsyncIdle ==
  [][ (SetRefreshRateStep /\ Accepted) =>
        IF SetRateRefused
        THEN /\ last'.error # kErrorNone
             /\ d'.current_refresh_rate_ = d.current_refresh_rate_
        ELSE /\ d'.current_refresh_rate_ = TargetRate
             /\ TargetRate # d.current_refresh_rate_ => hw'.fps = TargetRate ]_vars

\* the scenario: the rate had been lowered to the minimum, and a final call
\* during the idle timeout raised it to the requested rate
C9_Witness ==
  /\ last.op = "SetRefreshRate" /\ last.error = kErrorNone
  /\ last.final_rate
  /\ last.was = PanelMinFps
  /\ d.current_refresh_rate_ = RequestFps
  /\ hw.fps = RequestFps
  /\ d.handle_idle_timeout_ /\ ~d.enable_qsync_idle_ /\ ~d.enhance_idle_time_

\* C10 as claimed: an accepted call whose target is the current rate makes
\* no call and changes nothing.
C10_EqualRateIsNoOp ==
  [][ (SetRefreshRateStep /\ Accepted /\ TargetRate = d.current_refresh_rate_) =>
        /\ last'.calls = <<>>
        /\ d' = d
        /\ hw' = hw ]_vars

\* C10 as the code has it: an accepted call whose target is the current rate
\* sets nothing in the hardware and keeps the current rate, but goes on to
\* ReconfigureDisplay: a pending deferred configuration is applied or
\* replaced and the allocator is reconfigured.  Nothing at all happens only
\* when no configuration is pending, the hardware reports the attributes the
\* display holds and no idle timeout is to be processed.
C10_EqualRateStillReconfigures ==
  [][ (SetRefreshRateStep /\ Accepted /\ TargetRate = d.current_refresh_rate_) =>
        /\ ~Called(last', "hw.SetRefreshRate")
        /\ ~Called(last', "comp.CheckEnforceSplit")
        /\ hw' = hw
        /\ d'.current_refresh_rate_ = d.current_refresh_rate_
        /\ (d.deferred_config_.frames_to_defer # 0
              /\ call.env.hw_query = kErrorNone) =>
             /\ Called(last', "comp.ReconfigureDisplay")
             /\ d'.deferred_config_ # d.deferred_config_
        /\ (/\ d.deferred_config_.frames_to_defer = 0
            /\ hw.fps = d.display_attributes_.fps
            /\ hw.panel = d.hw_panel_info_
            /\ call.env.hw_query = kErrorNone
            /\ ~(d.enhance_idle_time_ /\ d.handle_idle_timeout_
                   /\ TargetRate = d.hw_panel_info_.min_fps)) =>
             /\ last'.calls = <<>> /\ last'.error = kErrorNone
             /\ d' = d ]_vars

\* a call for the current rate set nothing in the hardware and reconfigured
\* the allocator on a display that defers fps changes
C10_Witness ==
  /\ last.op = "SetRefreshRate" /\ last.error = kErrorNone
  /\ last.was = d.current_refresh_rate_
  /\ ~Called(last, "hw.SetRefreshRate")
  /\ Called(last, "comp.ReconfigureDisplay")
  /\ d.deferred_config_.frame_count # 0
  /\ d.deferred_config_.frames_to_defer = 0

----------------------------------------------------------------------------
(* Properties of adaptive sync.                                             *)

\* the step in which SetQSyncMode runs with the argument last'.qsync_mode
SetQSyncModeStep ==
  /\ last'.op = "SetQSyncMode"
  /\ call = NoCall
  /\ <<d', last'>> # <<d, last>>

\* C11 as claimed: SetQSyncMode(m) with m the active qsync mode leaves the
\* requested mode, the needs-update flag and the validation state as they
\* were and requests no refresh.
C11_ActiveModeIsNoOp ==
  [][ (SetQSyncModeStep /\ last'.qsync_mode = d.active_qsync_mode_) =>
        /\ d'.qsync_mode_ = d.qsync_mode_
        /\ d'.needs_avr_update_ = d.needs_avr_update_
        /\ d'.validated_ = d.validated_
        /\ ~Called(last', "Refresh") ]_vars

\* C11 as the code has it: on a panel with qsync after the first cycle,
\* SetQSyncMode(m) changes nothing and succeeds exactly when m is the mode
\* the client last requested; any other m, the active mode of an idle
\* override included, becomes the requested mode, sets the needs-update
\* flag, invalidates the validation state and requests a refresh.  Without
\* qsync support or in the first cycle the call fails and changes nothing.
C11_RequestedModeIsNoOp ==
  [][ SetQSyncModeStep =>
        IF ~d.hw_panel_info_.qsync_support \/ d.first_cycle_
        THEN last'.error = kErrorNotSupported /\ d' = d /\ last'.calls = <<>>
        ELSE IF last'.qsync_mode = d.qsync_mode_
        THEN last'.error = kErrorNone /\ d' = d /\ last'.calls = <<>>
        ELSE /\ last'.error = kErrorNone
             /\ d'.qsync_mode_ = last'.qsync_mode
             /\ d'.needs_avr_update_ /\ ~d'.validated_
             /\ Called(last', "Refresh") ]_vars

\* the client asked again for the mode it had requested, None, while the
\* idle override had made Continuous the active mode; nothing changed
C11_Witness ==
  /\ last.op = "SetQSyncMode" /\ last.qsync_mode = kQSyncModeNone
  /\ last.error = kErrorNone /\ last.calls = <<>>
  /\ d.qsync_mode_ = kQSyncModeNone
  /\ d.active_qsync_mode_ = kQSyncModeContinuous
  /\ ~d.first_cycle_

\* the step in which PostCommit ends the frame
PostCommitStep ==
  last'.op = "PostCommit" /\ d.phase = "committed" /\ d'.phase = "idle"

\* an idle timeout is being handled on a display with qsync on idle
Idling(dd) == dd.handle_idle_timeout_ /\ dd.enable_qsync_idle_

QsyncVideoPanel(dd) ==
  dd.hw_panel_info_.qsync_support /\ dd.hw_panel_info_.mode = kModeVideo

\* C12 as claimed: while idling with the requested mode None or OneShot,
\* Prepare makes Continuous the active mode and neither it nor the frame's
\* PostCommit changes the requested mode; a Prepare while not idling makes
\* the requested mode the active one.
C12_RequestKeptThroughIdleFrame ==
  [][ /\ (/\ PrepareStep /\ last'.error = kErrorNone /\ Idling(d)
          /\ d.qsync_mode_ \in {kQSyncModeNone, kQsyncModeOneShot}) =>
           /\ d'.active_qsync_mode_ = kQSyncModeContinuous
           /\ d'.qsync_mode_ = d.qsync_mode_
      /\ (/\ PostCommitStep /\ Idling(d)
          /\ d.active_qsync_mode_ = kQSyncModeContinuous
          /\ d.qsync_mode_ \in {kQSyncModeNone, kQsyncModeOneShot}) =>
           d'.qsync_mode_ = d.qsync_mode_
      /\ (/\ PrepareStep /\ last'.error = kErrorNone /\ ~Idling(d)
          /\ QsyncVideoPanel(d)) =>
           d'.active_qsync_mode_ = d.qsync_mode_ ]_vars

\* C12 as the code has it: while idling, Prepare makes Continuous the
\* active mode whatever the requested mode is, and leaves the requested
\* mode alone; the frame's PostCommit ends the idling and leaves the
\* requested mode alone unless it is OneShot, which it resets to None; a
\* Prepare while not idling makes the requested mode the active one.
C12_OneShotConsumedByIdleFrame ==
  [][ /\ (PrepareStep /\ last'.error = kErrorNone /\ Idling(d)) =>
           /\ d'.active_qsync_mode_ = kQSyncModeContinuous
           /\ d'.qsync_mode_ = d.qsync_mode_
      /\ (PostCommitStep /\ Idling(d)) =>
           /\ ~d'.handle_idle_timeout_
           /\ d'.active_qsync_mode_ = d.active_qsync_mode_
           /\ d'.qsync_mode_ = IF d.qsync_mode_ = kQsyncModeOneShot
                               THEN kQSyncModeNone ELSE d.qsync_mode_
      /\ (/\ PrepareStep /\ last'.error = kErrorNone /\ ~Idling(d)
          /\ QsyncVideoPanel(d)) =>
           /\ d'.active_qsync_mode_ = d.qsync_mode_
           /\ d'.qsync_mode_ = d.qsync_mode_ ]_vars

\* the idle frame is over: its Prepare had overridden the requested None
\* with Continuous, and its PostCommit posted the idle notification
C12_Witness ==
  /\ last.op = "PostCommit" /\ Called(last, "kPostIdleTimeout")
  /\ d.active_qsync_mode_ = kQSyncModeContinuous
  /\ d.qsync_mode_ = kQSyncModeNone
  /\ d.enable_qsync_idle_ /\ ~d.handle_idle_timeout_

\* C13: PostCommit with the requested mode OneShot leaves the requested
\* mode None; with OneShotContinuous, Continuous or None it leaves the
\* requested mode as it was, in every frame.
C13_OneShotSelfClears ==
  [][ PostCommitStep =>
        d'.qsync_mode_ = IF d.qsync_mode_ = kQsyncModeOneShot
                         THEN kQSyncModeNone ELSE d.qsync_mode_ ]_vars

\* a PostCommit has reset a OneShot request: the request is None, the
\* needs-update flag is set and a refresh was requested
C13_Witness ==
  /\ last.op = "PostCommit" /\ Called(last, "Refresh")
  /\ d.qsync_mode_ = kQSyncModeNone
  /\ d.needs_avr_update_ /\ ~d.validated_

----------------------------------------------------------------------------
(* Properties of the deferred fps configuration.                            *)

\* the deferred configuration is absent
DeferAbsent(dc) == dc.frames_to_defer = 0 /\ ~dc.dirty /\ ~dc.apply

CountdownStep ==
  /\ PostCommitStep
  /\ d.deferred_config_.frames_to_defer > 0
  /\ ~d.deferred_config_.dirty

\* C15 as stated: while the hardware still runs at the deferred fps, each
\* PostCommit of a pending countdown advances it by one and leaves the fps
\* alone; the PostCommit in which it reaches zero invalidates the validation
\* state, gives the attributes the deferred fps and clears the deferred
\* configuration.
C15_NewTimingAfterCountdown ==
  [][CountdownStep /\ hw.fps = d.deferred_config_.fps =>
       IF d.deferred_config_.frames_to_defer > 1
       THEN /\ d'.deferred_config_.frames_to_defer
                 = d.deferred_config_.frames_to_defer - 1
            /\ d'.display_attributes_.fps = d.display_attributes_.fps
       ELSE /\ ~d'.validated_
            /\ DeferAbsent(d'.deferred_config_)
            /\ d'.display_attributes_.fps = d.deferred_config_.fps]_vars

\* C15 amended: the countdown, the invalidation and the clearing are as
\* stated; the attributes take the fps the hardware reports, and only when
\* the reconfiguration of that PostCommit succeeds, else they keep the old fps
\* although the deferred configuration is cleared.
C15_NewTimingWhenReconfigured ==
  [][CountdownStep =>
       IF d.deferred_config_.frames_to_defer > 1
       THEN /\ d'.deferred_config_.frames_to_defer
                 = d.deferred_config_.frames_to_defer - 1
            /\ ~d'.deferred_config_.apply
            /\ d'.display_attributes_.fps = d.display_attributes_.fps
            /\ d'.validated_ = d.validated_
       ELSE /\ ~d'.validated_
            /\ DeferAbsent(d'.deferred_config_)
            /\ d'.display_attributes_.fps
                 = IF last'.reconfigure = kErrorNone
                   THEN hw.fps ELSE d.display_attributes_.fps]_vars

\* the countdown has ended in a PostCommit that gave the attributes the
\* lower fps of the hardware
C15_Witness ==
  /\ last.op = "PostCommit"
  /\ last.reconfigure = kErrorNone
  /\ "comp.ReconfigureDisplay" \in {last.calls[i] : i \in DOMAIN last.calls}
  /\ ~d.validated_
  /\ d.deferred_config_.frame_count > 0
  /\ d.deferred_config_.fps = d.display_attributes_.fps
  /\ DeferAbsent(d.deferred_config_)
  /\ d.display_attributes_.fps = hw.fps
  /\ d.display_attributes_.fps < PanelMaxFps

----------------------------------------------------------------------------
(* Properties of the panel brightness.                                      *)

\* a PostCommit that retries a pending brightness and is answered `deferred`
DeferredAgainStep ==
  /\ PostCommitStep
  /\ d.pending_brightness_
  /\ last'.brightness = kErrorDeferred

\* C16: a brightness the driver deferred is retried at the following
\* PostCommits until the driver accepts it: a PostCommit whose retry is
\* deferred again keeps the value pending.
C16_DeferredStaysPending ==
  [][DeferredAgainStep =>
       /\ d'.pending_brightness_
       /\ d'.cached_brightness_ = d.cached_brightness_]_vars

\* x and y differ by no more than the rounding of the conversions between a
\* brightness and a level of the panel's range: (3 + max / (max - min)) units
\* of 2^-MantissaBits
WithinRounding(x, y) ==
  IF x = MinusOne \/ y = MinusOne THEN x = y
  ELSE LET c == CommonDen(x, y)
           a == x.num * (c \div x.den)
           b == y.num * (c \div y.den)
           diff == IF a >= b THEN a - b ELSE b - a
           max == d.hw_panel_info_.panel_max_brightness
           min == d.hw_panel_info_.panel_min_brightness
       IN diff * (max - min) * Pow2(MantissaBits) <= (3 * (max - min) + max) * c

\* GetPanelBrightness is called next after a SetPanelBrightness(b), b in
\* [0,1], that the driver accepted, and the driver reports the level
ReadBackStep ==
  /\ last.op = "SetPanelBrightness"
  /\ last.status = kErrorNone
  /\ last.error = kErrorNone
  /\ last.brightness # MinusOne
  /\ last'.op = "GetPanelBrightness"
  /\ last'.status = kErrorNone

\* C17 as stated: for every accepted brightness b in [0,1] the read-back
\* succeeds and returns b up to rounding.
C17_RoundTrip ==
  [][ReadBackStep =>
       /\ last'.error = kErrorNone
       /\ WithinRounding(last'.brightness, last.brightness)]_vars

\* C17 amended: the read-back succeeds; it returns b up to rounding when
\* the level written is not zero, and -1 ("off") when it is zero.
C17_RoundTripAboveLevelZero ==
  [][ReadBackStep =>
       /\ last'.error = kErrorNone
       /\ hw.level = ToInt(FAdd(FMul(last.brightness,
                                     Frac(d.hw_panel_info_.panel_max_brightness
                                          - d.hw_panel_info_.panel_min_brightness, 1)),
                                Frac(d.hw_panel_info_.panel_min_brightness, 1)))
       /\ IF hw.level = 0
          THEN last'.brightness = MinusOne
          ELSE WithinRounding(last'.brightness, last.brightness)]_vars

\* brightness one half on a range from zero: the level is the integer part
\* of half the maximum, the remainder is stored, and one half is read back
C17_Witness ==
  /\ last.op = "GetPanelBrightness"
  /\ last.error = kErrorNone
  /\ last.brightness = Frac(1, 2)
  /\ d.hw_panel_info_.panel_min_brightness = 0
  /\ hw.level = PanelMaxBrightness \div 2
  /\ d.level_remainder_
       = FSub(Round(PanelMaxBrightness, 2), Frac(PanelMaxBrightness \div 2, 1))

----------------------------------------------------------------------------
(* Properties of the locking.                                               *)

EventHandlers ==
  {"VSync", "IdleTimeout", "ThermalEvent", "PanelDead", "HandleBacklightEvent"}

\* a step of an event handler that reads or writes the display's members
HandlerAccessStep ==
  /\ last'.op \in EventHandlers
  /\ call' = call
  /\ <<d', last', pc'>> # <<d, last, pc>>
  /\ ~(pc.event = "idle_timeout" /\ pc'.event = "idle")

\* C18: no event handler reads or writes the display's members while the
\* client is inside a frame operation (which holds the display lock).
C18_HandlersExcludeFrameOperations ==
  [][HandlerAccessStep => call = NoCall]_vars

\* C19: a brightness request that races with PostCommit is not lost: a
\* pending brightness stops being pending only in the PostCommit that has
\* retried that very value.
C19_PendingClearedOnlyByItsRetry ==
  [][d.pending_brightness_ /\ ~d'.pending_brightness_ =>
       /\ call.op = "PostCommit"
       /\ call.retried
       /\ call.value = d.cached_brightness_]_vars

\* DppsProcessOps(kDppsPartialUpdate) returns
DppsReturnStep ==
  /\ pc.dpps \in {"waiting", "woken"}
  /\ pc'.dpps = "idle"

\* C20: if a PostCommit has run after the request was marked pending (it has
\* cleared the mark) before the wait ends, the call returns without a timeout
\* error.
C20_CommitAcknowledgesToggle ==
  [][DppsReturnStep /\ ~d.dpps_pu_nofiy_pending_ =>
       last'.error = kErrorNone]_vars

----------------------------------------------------------------------------
(* Properties of the event handlers.                                        *)

\* the PostCommit of a frame during which an idle timeout was accepted: the
\* event was the last thing to happen before it
PostCommitAfterIdleEvent ==
  /\ last.op = "IdleTimeout"
  /\ d.phase = "committed"
  /\ d.handle_idle_timeout_
  /\ last'.op = "PostCommit"

\* C21: an idle timeout accepted between Prepare and PostCommit keeps its
\* idle flag through that frame's PostCommit, so that the Prepare of the
\* draw cycle it forced finds the flag set.
C21_IdleFlagSurvivesFrameInFlight ==
  [][PostCommitAfterIdleEvent => d'.handle_idle_timeout_]_vars

\* DisplayBuiltIn::IdleTimeout has run
IdleTimeoutStep == last'.op = "IdleTimeout"

CallsOf(l) == {l.calls[i] : i \in DOMAIN l.calls}

----------------------------------------------------------------------------
(* Properties of the panel mode switch.                                     *)

\* DisplayBuiltIn::SetDisplayMode runs on the pending call
SetDisplayModeStep == call.op = "SetDisplayMode" /\ last'.op = "SetDisplayMode"

\* nothing the mode switch derives has changed and no refresh was requested
ModeSettingsKept ==
  /\ d'.partial_update_control_ = d.partial_update_control_
  /\ d'.switch_to_cmd_ = d.switch_to_cmd_
  /\ d'.hw_panel_info_ = d.hw_panel_info_
  /\ hw'.idle_timeout = hw.idle_timeout
  /\ "Refresh" \notin CallsOf(last')

ModeIsValid == call.mode \in {kModeCommand, kModeVideo}

ModeSwitched(mode) ==
  /\ SetDisplayModeStep
  /\ call.mode = mode
  /\ last'.error = kErrorNone
  /\ "hw.SetDisplayMode" \in CallsOf(last')

\* what a successful switch does before it returns
SwitchApplied ==
  /\ ModeSwitched(kModeVideo) =>
        /\ ~d'.partial_update_control_
        /\ hw'.idle_timeout = "property"
        /\ "Refresh" \in CallsOf(last')
  /\ ModeSwitched(kModeCommand) =>
        /\ hw'.idle_timeout = "zero"
        /\ d'.switch_to_cmd_
        /\ "Refresh" \in CallsOf(last')

\* the end of a PostCommit that found switch_to_cmd_ set
PostCommitOfSwitch ==
  /\ call.op = "PostCommit"
  /\ last'.op = "PostCommit"
  /\ d.switch_to_cmd_

ModeChangedSinceCommit == d.last_panel_mode_ # d'.hw_panel_info_.mode

----------------------------------------------------------------------------
\* Properties of the vsync subscription

\* C25: after every PostCommit the hardware vsync subscription equals
\* vsync_enable_ and no re-enable is pending, also when a VSync handler has
\* disabled the subscription since the previous frame.
C25_SubscriptionRestoredByPostCommit ==
  [][last'.op = "PostCommit" =>
       /\ hw'.vsync = d'.vsync_enable_
       /\ ~d'.pending_vsync_enable_]_vars

----------------------------------------------------------------------------
\* Properties of the panel-dead event

\* the locked block of PanelDead
PanelDeadLockedStep == pc.event = "idle" /\ pc'.event = "panel_dead"

\* the notification of PanelDead
PanelDeadNotifyStep == pc.event = "panel_dead" /\ pc'.event = "idle"

\* C26: PanelDead marks the display for panel reset and clears validated_
\* under the display lock, then delivers kPanelDeadEvent and Refresh in this
\* order without the lock; it does not touch the hardware or the power
\* state; and no Prepare takes the fast path while validated_ is false.
C26_PanelDeadInvalidatesAndNotifies ==
  [][/\ PanelDeadLockedStep =>
           /\ call = NoCall
           /\ d'.reset_panel_ /\ ~d'.validated_
           /\ hw' = hw /\ d'.active_ = d.active_
     /\ PanelDeadNotifyStep =>
           /\ last'.calls = <<"HandleEvent(kPanelDeadEvent)", "Refresh">>
           /\ d' = d /\ hw' = hw /\ call' = call
     /\ (PrepareStep /\ ~d.validated_) => ~last'.skipped]_vars

----------------------------------------------------------------------------
\* Properties of DppsInfo

\* DppsInfo::Init returns
DppsInfoInitStep == last'.op = "DppsInfo::Init"

\* a display that is in the registry sends a notification
RegisteredNotifyStep ==
  /\ last'.op = "DppsNotifyOps"
  /\ last'.display_id \in dpps.display_id_

\* C27: whenever DppsInfo::Init returns, after any sequence of Init and
\* Deinit calls of any displays and whatever fails during Init, dpps_intf_
\* is not null, and a notification of a registered display reaches an
\* implementation.
C27_HandleNeverNullAfterInit ==
  [][/\ DppsInfoInitStep => dpps'.dpps_intf_ # kDppsNull
     /\ RegisteredNotifyStep => last'.delivered]_vars

----------------------------------------------------------------------------
\* Properties of the layer-stack statistics

StatsStep == call.op = "BuildLayerStackStats" /\ last'.op = "BuildLayerStackStats"

\* the four special indices of a layer-stack record
SpecialIndices(st) ==
  <<st.gpu_target_index, st.stitch_target_index, st.demura_target_index,
    st.noise_layer_index>>

\* the indices that are set are positions of the stack, no two the same
DistinctPositions(idx, n) ==
  /\ \A i \in DOMAIN idx : idx[i] = -1 \/ idx[i] \in 0..(n - 1)
  /\ \A i, j \in DOMAIN idx :
        (i # j /\ idx[i] # -1 /\ idx[j] # -1) => idx[i] # idx[j]

\* the layers that are of some special kind
SpecialLayers(layers) ==
  {i \in DOMAIN layers :
     \/ layers[i].composition \in
          {kCompositionGPUTarget, kCompositionStitchTarget, kCompositionDemura}
     \/ layers[i].is_noise}

\* C28: after BuildLayerStackStats the special indices that are set are
\* pairwise distinct positions of the stack, the app layer count and the
\* special layers add up to the stack (each layer is counted once), and a
\* stack without app layer is answered with kErrorNoAppLayers.
C28_StatsIndicesDistinctAndCounted ==
  [][StatsStep =>
       /\ DistinctPositions(SpecialIndices(d'.disp_layer_stack_),
                            Len(call.ls.layers))
       /\ d'.disp_layer_stack_.app_layer_count
             + Cardinality(SpecialLayers(call.ls.layers)) = Len(call.ls.layers)
       /\ SpecialLayers(call.ls.layers) = DOMAIN call.ls.layers
             => last'.error = kErrorNoAppLayers]_vars

\* a stack with an app layer and all four special layers has been counted
C28_Witness ==
  /\ last.op = "BuildLayerStackStats"
  /\ last.error = kErrorNone
  /\ d.disp_layer_stack_.app_layer_count > 0
  /\ \A i \in 1..4 : SpecialIndices(d.disp_layer_stack_)[i] # -1

----------------------------------------------------------------------------
\* Properties of Commit

CommitStep == d.phase = "prepared" /\ last'.op = "Commit"

\* the positions of c in the call sequence q
Positions(q, c) == {i \in DOMAIN q : q[i] = c}

\* c is called once in q, and before the underlying commit
OnceBeforeCommit(q, c) ==
  /\ Cardinality(Positions(q, c)) = 1
  /\ \A i \in Positions(q, c), j \in Positions(q, "base.CommitLocked") : i < j

\* C29: Commit sends a pending frame-trigger override to the hardware,
\* clears it when the hardware accepts it and keeps it for the next commit
\* when it does not, and sends nothing when no override is pending; with
\* vsync enabled it waits for the retire fence and then enables the vsync
\* event; all of this before the one call of the underlying commit path.
C29_PreCommitSideEffects ==
  [][CommitStep =>
       /\ Positions(last'.calls, "base.CommitLocked") = {Len(last'.calls)}
       /\ IF d.trigger_mode_debug_ # kFrameTriggerMax
          THEN /\ OnceBeforeCommit(last'.calls, "hw.SetFrameTrigger")
               /\ d'.trigger_mode_debug_ =
                     IF last'.frame_trigger = kErrorNone
                     THEN kFrameTriggerMax ELSE d.trigger_mode_debug_
          ELSE /\ Positions(last'.calls, "hw.SetFrameTrigger") = {}
               /\ d'.trigger_mode_debug_ = kFrameTriggerMax
       /\ IF d.vsync_enable_
          THEN /\ OnceBeforeCommit(last'.calls, "Fence::Wait(retire_fence_)")
               /\ OnceBeforeCommit(last'.calls, "events.SetEventState(VSYNC, true)")
               /\ \A i \in Positions(last'.calls, "Fence::Wait(retire_fence_)"),
                     j \in Positions(last'.calls, "events.SetEventState(VSYNC, true)") :
                       i < j
               /\ hw'.vsync
          ELSE /\ Positions(last'.calls, "Fence::Wait(retire_fence_)") = {}
               /\ Positions(last'.calls, "events.SetEventState(VSYNC, true)") = {}
               /\ hw'.vsync = hw.vsync]_vars

\* a commit with vsync enabled has sent a pending override, and the hardware
\* has accepted it
C29_Witness ==
  /\ last.op = "Commit"
  /\ last.frame_trigger = kErrorNone
  /\ d.trigger_mode_debug_ = kFrameTriggerMax
  /\ d.vsync_enable_
  /\ hw.vsync

----------------------------------------------------------------------------
\* Properties of the allocator

\* the pipes marked in use for the block b
InUse(b) == {i \in DOMAIN res.src_pipes_ : res.src_pipes_[i].hw_block_type = b}

\* the registered displays
Registered == {id \in DisplayIds : res.ctx[id] # NoContext}

\* the pipe count a block can draw on: the allocator declares one pool of
\* num_pipe_ pipes for all blocks
BlockPipeCount(b) == Cardinality(DOMAIN res.src_pipes_)

----------------------------------------------------------------------------
\* Properties of the decimation

\* the last operation computed a decimation
DecimationComputed == last.op = "SetDecimationFactor"

\* requestedScale / 2^k is at most the scale the scaler reaches alone
WithinScaler(k) ==
  last.crop <= last.max_scale_down * Pow2(k) * last.dst

----------------------------------------------------------------------------
\* Properties of the split configuration

\* the last operation configured a layer whose destination spans the split
\* boundary, and the layer passed validation
SplitAcrossBoundary ==
  /\ last.op = "DisplaySplitConfig"
  /\ last.dst_rect.left < last.split_left
  /\ last.split_left < last.dst_rect.right
  /\ last.error = kErrorNone

\* the width of a source rectangle
SrcWidth(r) ==
  Ratio(r.right.num * r.left.den - r.left.num * r.right.den,
        r.right.den * r.left.den)

\* the width of a destination rectangle
DstWidth(r) == r.right - r.left

\* the source width of the pipe p is to the layer's source width as the
\* destination width of p is to the layer's destination width
Proportional(p) ==
  SrcWidth(p.src_roi).num * SrcWidth(last.src_rect).den * DstWidth(last.dst_rect)
    = SrcWidth(last.src_rect).num * SrcWidth(p.src_roi).den * DstWidth(p.dst_roi)

\* the rectangles a and b lie side by side and cover exactly r
Tiles(a, b, r) ==
  /\ a.left = r.left /\ a.right = b.left /\ b.right = r.right
  /\ a.top = r.top /\ b.top = r.top
  /\ a.bottom = r.bottom /\ b.bottom = r.bottom

----------------------------------------------------------------------------
\* Properties of the effects of the fast path

\* the stack Prepare examines: the client's, with the demura layer the
\* display adds
Submitted == HandleDemuraLayer(d, call.ls).ls

\* the stack Prepare hands back
Returned == Prepare(d, call.ls, call.env).ls

\* a layer that is neither a target of composition nor the noise layer
Ordinary(l) == l.composition \notin SyntheticCompositions /\ ~l.is_noise

\* every hardware layer carries the damage rectangles of the submitted
\* layer it was built from
DamageCopied ==
  \A j \in DOMAIN d'.disp_layer_stack_.hw_layers :
    d'.disp_layer_stack_.hw_layers[j].damage
      = Submitted.layers[d'.disp_layer_stack_.index[j]].damage

\* every ordinary layer comes back as kCompositionSDE and every other layer
\* as it was submitted
AllOrdinaryMarked ==
  \A i \in DOMAIN Submitted.layers :
    Returned.layers[i].composition
      = IF Ordinary(Submitted.layers[i]) THEN kCompositionSDE
        ELSE Submitted.layers[i].composition

\* the number of layers the fast path leaves unmarked at the end of the
\* stack: the GPU target, one for each of the stack's stitch and demura
\* flags, one for the noise flag of the previous frame
UnmarkedTail ==
  StackFudgeFactor(Submitted)
    + (IF d.disp_layer_stack_.noise_present THEN 1 ELSE 0)

\* the layers ahead of the unmarked tail come back as kCompositionSDE and
\* the tail as it was submitted
LeadingMarked ==
  \A i \in DOMAIN Submitted.layers :
    Returned.layers[i].composition
      = IF i <= Len(Submitted.layers) - UnmarkedTail THEN kCompositionSDE
        ELSE Submitted.layers[i].composition

\* the ordinary layers are the ones ahead of the unmarked tail
OrdinaryLayersLead ==
  \A i \in DOMAIN Submitted.layers :
    Ordinary(Submitted.layers[i]) <=> i <= Len(Submitted.layers) - UnmarkedTail

\* the adaptive-sync mode and request are the ones UpdateQsyncMode derives
\* from the members
QsyncUpdated ==
  /\ d'.active_qsync_mode_ = UpdateQsyncMode(d).active_qsync_mode_
  /\ d'.disp_layer_stack_.hw_avr_info
       = UpdateQsyncMode(d).disp_layer_stack_.hw_avr_info

\* the hardware layers, but for their damage rectangles, the layers they
\* were built from, the layer count and the cached ROI are the previous
\* frame's
AssignmentKept ==
  /\ d'.disp_layer_stack_.index = d.disp_layer_stack_.index
  /\ d'.disp_layer_stack_.app_layer_count = d.disp_layer_stack_.app_layer_count
  /\ DOMAIN d'.disp_layer_stack_.hw_layers = DOMAIN d.disp_layer_stack_.hw_layers
  /\ \A j \in DOMAIN d.disp_layer_stack_.hw_layers :
       [d'.disp_layer_stack_.hw_layers[j] EXCEPT !.damage = 0]
         = [d.disp_layer_stack_.hw_layers[j] EXCEPT !.damage = 0]
  /\ d'.left_frame_roi_ = d.left_frame_roi_
  /\ d'.right_frame_roi_ = d.right_frame_roi_

\* a frame whose damage-rectangle counts differ from the previous frame's
\* is validated in full
MismatchValidatesInFull ==
  (PrepareStep /\ ~DirtyCountsMatch(d, call.ls)) =>
     ~FastPathTaken(last') /\ ~last'.skipped

\* C33 as claimed: on the fast path Prepare copies each submitted layer's
\* damage rectangles onto its hardware layer, marks every ordinary layer as
\* hardware-composited, updates the adaptive-sync state and keeps the
\* previous frame's pipe assignment and cached ROI; when the
\* damage-rectangle counts of a layer differ, full validation runs.
C33_FastPathMarksEveryOrdinaryLayer ==
  [][ /\ (PrepareStep /\ FastPathTaken(last')) =>
            /\ DamageCopied
            /\ AllOrdinaryMarked
            /\ QsyncUpdated
            /\ AssignmentKept
      /\ MismatchValidatesInFull ]_vars

\* C33 as the code has it: the layers marked as hardware-composited are the
\* ones ahead of the last k layers of the stack, k counting the GPU target,
\* the stack's stitch and demura flags and the previous frame's noise flag;
\* they are every ordinary layer when the ordinary layers are the ones
\* ahead of those k.  The other effects are as claimed.
C33_FastPathMarksLeadingLayers ==
  [][ /\ (PrepareStep /\ FastPathTaken(last')) =>
            /\ DamageCopied
            /\ LeadingMarked
            /\ OrdinaryLayersLead => AllOrdinaryMarked
            /\ QsyncUpdated
            /\ AssignmentKept
      /\ MismatchValidatesInFull ]_vars

\* the fast path ran on a frame of two ordinary layers with new damage
\* rectangles while the adaptive-sync mode was continuous
C33_Witness ==
  /\ FastPathTaken(last)
  /\ Len(d.disp_layer_stack_.hw_layers) = 2
  /\ d.disp_layer_stack_.hw_layers[1].damage = 1
  /\ d.active_qsync_mode_ = kQSyncModeContinuous

----------------------------------------------------------------------------
\* Properties of the recorded refresh rate

\* the rate the hardware runs at: the one it accepted last, or the panel's
\* maximum, at which Init leaves it, while it has accepted none
HardwareRate == hw.fps

\* C34: after any sequence of SetRefreshRate calls, failing or not, the
\* recorded current refresh rate is the rate the hardware accepted last, or
\* the panel's maximum if it accepted none; in particular after a call that
\* returned an error.
C34_RecordedRateIsHardwareRate ==
  (DisplayReady /\ call = NoCall) => d.current_refresh_rate_ = HardwareRate

----------------------------------------------------------------------------
\* Properties of the post-idle notification

\* no Prepare starts with the idle flag set: PostCommit clears the flag at
\* the end of every frame
PrepareStartsWithoutIdleFlag == d.phase = "idle" => ~d.handle_idle_timeout_

\* C35: PostCommit delivers the post-idle notification only for a frame
\* whose Prepare ran with the idle flag set and applied the idle override.
\* When every idle timeout arrives between a frame's Prepare and its
\* PostCommit, no Prepare runs with the flag set, so no PostCommit delivers
\* the notification.
C35_NoNotificationForTimeoutInFlight ==
  [][last'.op = "PostCommit" => ~Called(last', "kPostIdleTimeout")]_vars

----------------------------------------------------------------------------
(* Properties of the decision to defer a timing change.                     *)

\* the fps of the display once a pending deferred configuration has been
\* applied to it, which is what a request that marks it dirty does first
FpsBefore ==
  IF IsDeferredState(d.deferred_config_)
  THEN d.deferred_config_.fps ELSE d.display_attributes_.fps

\* the step has started a countdown for the fps of the hardware
DeferStarted ==
  /\ IsDeferredState(d'.deferred_config_)
  /\ ~d'.deferred_config_.dirty
  /\ d'.deferred_config_.frames_to_defer = d'.deferred_config_.frame_count
  /\ d'.deferred_config_ # d.deferred_config_

\* a SetRefreshRate that reconfigured the display without an error
ReconfiguredStep == SetRefreshRateStep /\ last'.error = kErrorNone

\* C36: a countdown starts only with a non-zero defer frame count, for an fps
\* of the hardware strictly below the fps of the display, and never in the
\* PostCommit that ends a countdown; the display then keeps its fps.  A
\* request that succeeds with a zero defer frame count, or for an fps that
\* is not lower, leaves no countdown and gives the display the new fps.
C36_DefersOnlyLowerFps ==
  [][ /\ DeferStarted =>
           /\ d.deferred_config_.frame_count # 0
           /\ hw'.fps < FpsBefore
           /\ d'.deferred_config_.fps = hw'.fps
           /\ d'.display_attributes_.fps = FpsBefore
           /\ ~(PostCommitStep /\ d.deferred_config_.frames_to_defer = 1)
      /\ (ReconfiguredStep
            /\ (d.deferred_config_.frame_count = 0 \/ hw'.fps >= FpsBefore)) =>
           /\ ~IsDeferredState(d'.deferred_config_)
           /\ d'.display_attributes_.fps = hw'.fps ]_vars

\* a request for a lower fps has started a countdown: the hardware runs at
\* the new fps, the display still has the higher one
C36_Witness ==
  /\ last.op = "SetRefreshRate" /\ last.error = kErrorNone
  /\ IsDeferredState(d.deferred_config_)
  /\ ~d.deferred_config_.dirty
  /\ d.deferred_config_.fps = hw.fps
  /\ d.display_attributes_.fps > hw.fps

----------------------------------------------------------------------------
(* Properties of the requests that end a deferral early.                    *)

\* a deferred configuration is pending
Pending == IsDeferredState(d.deferred_config_)

\* SetDisplayState(kStateOn)
DisplayOnStep == last'.op = "SetDisplayState" /\ last'.state = kStateOn

SetActiveConfigStep == call.op = "SetActiveConfig" /\ call'.op = "none"

\* a SetRefreshRate that gets as far as line 874
RateMarksDirtyStep ==
  /\ SetRefreshRateStep
  /\ SetRefreshRateRejected(d, call.refresh_rate) = kErrorNone
  /\ d.current_refresh_rate_
       # SetRefreshRateTarget(d, call.refresh_rate, call.final_rate,
                              call.idle_screen, call.env)
       => call.env.hw_set = kErrorNone /\ call.env.enforce_split = kErrorNone

MarksDirtyStep == RateMarksDirtyStep \/ SetActiveConfigStep

\* the reconfiguration that follows the mark gets its answers from the
\* hardware
QueriesAnswered ==
  /\ call.env.hw_query = kErrorNone
  /\ SetActiveConfigStep => call.env.hw_set = kErrorNone

\* the pending countdown is gone: the display has the deferred fps, or the
\* one the hardware has now, and the deferred configuration is absent or
\* starts anew for a lower fps
CountdownAbandoned ==
  /\ d'.display_attributes_.fps \in {d.deferred_config_.fps, hw'.fps}
  /\ DeferAbsent(d'.deferred_config_) \/ DeferStarted

\* outside the deferred state no request leaves the configuration dirty
DirtyOnlyWhenPending ==
  d'.deferred_config_.dirty => IsDeferredState(d'.deferred_config_) /\ Pending

\* C37 as stated: with a deferred configuration pending, SetDisplayState(On)
\* and every SetRefreshRate or SetActiveConfig that marks it dirty give the
\* display the deferred timing in that call and abandon the countdown;
\* without one pending the mark has no effect.
C37_DirtyAppliesAtOnce ==
  [][ /\ (Pending /\ DisplayOnStep) =>
           /\ d'.display_attributes_.fps = d.deferred_config_.fps
           /\ DeferAbsent(d'.deferred_config_)
      /\ (Pending /\ MarksDirtyStep) => CountdownAbandoned
      /\ DirtyOnlyWhenPending ]_vars

\* C37 amended: SetDisplayState(On) is as stated; a SetRefreshRate or
\* SetActiveConfig that marks the configuration dirty applies it in that call
\* when the hardware answers the queries of the reconfiguration, and
\* otherwise leaves the display's timing and the countdown as they were,
\* with the configuration dirty; without one pending the mark has no effect.
C37_DirtyAppliesWhenReconfigured ==
  [][ /\ (Pending /\ DisplayOnStep) =>
           /\ d'.display_attributes_.fps = d.deferred_config_.fps
           /\ DeferAbsent(d'.deferred_config_)
      /\ (Pending /\ MarksDirtyStep) =>
           IF QueriesAnswered THEN CountdownAbandoned
           ELSE /\ d'.display_attributes_ = d.display_attributes_
                /\ d'.deferred_config_
                     = [d.deferred_config_ EXCEPT !.dirty = TRUE]
      /\ DirtyOnlyWhenPending ]_vars

\* a SetRefreshRate has ended a countdown early: the display has the fps
\* that was deferred and no configuration is pending
C37_Witness ==
  /\ last.op = "SetRefreshRate" /\ last.error = kErrorNone
  /\ last.was = d.current_refresh_rate_
  /\ "comp.ReconfigureDisplay" \in {last.calls[i] : i \in DOMAIN last.calls}
  /\ d.deferred_config_.frame_count > 0
  /\ DeferAbsent(d.deferred_config_)
  /\ d.display_attributes_.fps = hw.fps
  /\ d.display_attributes_.fps < PanelMaxFps

----------------------------------------------------------------------------
(* Properties of ControlPartialUpdate.                                      *)

ControlPartialUpdateStep == last'.op = "ControlPartialUpdate"

\* the partial-update setting and the validation state are as they were
SettingKept ==
  /\ d'.partial_update_control_ = d.partial_update_control_
  /\ d'.validated_ = d.validated_

\* C38: a null out-parameter gives kErrorParameters, and an enable while the
\* plugin has disabled partial update gives kErrorNotSupported, both with the
\* setting and the validation state kept; a request for the setting in force
\* succeeds with pending 0 and both kept; a change succeeds, invalidates the
\* validation, takes the setting and reports pending 1 exactly for a disable.
C38_ControlPartialUpdateOutcomes ==
  [][ ControlPartialUpdateStep =>
        IF last'.null
        THEN last'.error = kErrorParameters /\ SettingKept
        ELSE IF last'.disable_pu /\ last'.enable
        THEN last'.error = kErrorNotSupported /\ SettingKept
        ELSE IF last'.enable = d.partial_update_control_
        THEN last'.error = kErrorNone /\ last'.pending = 0 /\ SettingKept
        ELSE /\ last'.error = kErrorNone
             /\ ~d'.validated_
             /\ d'.partial_update_control_ = last'.enable
             /\ last'.pending = 1 <=> ~last'.enable
             /\ last'.pending \in {0, 1} ]_vars

\* partial update was disabled on a validated display: the request reported
\* a pending draw into an integer that held 0 and the validation is gone
C38_Witness ==
  /\ last.op = "ControlPartialUpdate" /\ ~last.null /\ ~last.enable
  /\ last.error = kErrorNone
  /\ last.pending = 1
  /\ ~d.partial_update_control_
  /\ ~d.validated_
  /\ d.phase = "idle" /\ ~d.first_cycle_

----------------------------------------------------------------------------
(* Properties of the VSync handler.                                         *)

\* a pulse handled in one piece on the event thread
VSyncStep == last'.op = "VSync" /\ pc.event = "idle" /\ pc'.event = "idle"

\* qsync-on-idle is in effect
QsyncOnIdle == d.enable_qsync_idle_ /\ d.active_qsync_mode_ # kQSyncModeNone

\* C39: the handler delivers the pulse to the client exactly when client
\* vsync is enabled, hardware vsync is not dropped and qsync-on-idle is not
\* in effect, and then changes nothing; otherwise it delivers nothing,
\* switches the hardware vsync event off and records a pending re-enable.
C39_PulseDeliveredOrDisabled ==
  [][ VSyncStep =>
        IF d.vsync_enable_ /\ ~last'.drop_hw_vsync /\ ~QsyncOnIdle
        THEN last'.propagate /\ d' = d /\ hw' = hw
        ELSE /\ ~last'.propagate
             /\ hw' = [hw EXCEPT !.vsync = FALSE]
             /\ d' = [d EXCEPT !.pending_vsync_enable_ = TRUE] ]_vars

\* a pulse arrived with client vsync enabled and not dropped while
\* qsync-on-idle was in effect: nothing was delivered, the event is off and
\* a re-enable is pending
C39_Witness ==
  /\ last.op = "VSync" /\ ~last.propagate /\ ~last.drop_hw_vsync
  /\ d.vsync_enable_
  /\ d.enable_qsync_idle_ /\ d.active_qsync_mode_ # kQSyncModeNone
  /\ ~hw.vsync
  /\ d.pending_vsync_enable_

----------------------------------------------------------------------------
(* Properties of the demura layer.                                          *)

\* demura is enabled for the display and its layer has a buffer
DemuraActive == d.demura_status /\ d.demura_layer_fd > 0

\* a Prepare or a PrePrepare of a stack, and one of a null pointer
StackStep ==
  /\ call.op \in {"Prepare", "PrePrepare"} /\ call'.op = "none"
  /\ call.ls # NullStack
NullStackStep == call.op = "PrePrepare" /\ call'.op = "none" /\ call.ls = NullStack

\* the demura layer was not in the previous frame and is in this one
DemuraAppears ==
  DemuraActive /\ d.disp_layer_stack_.demura_target_index = -1

\* the demura layer was in the previous frame and is not in this one
DemuraDisappears ==
  ~DemuraActive /\ d.disp_layer_stack_.demura_target_index # -1

\* the frame was not accepted by the pre-check: PrePrepare asks for a
\* validation, Prepare goes through the allocator's Prepare or fails
ValidatedInFull ==
  IF call.op = "PrePrepare"
  THEN last'.error = kErrorNotValidated /\ d'.needs_validate_
  ELSE /\ ~FastPathTaken(last')
       /\ last'.error = kErrorNone => Called(last', "comp.Prepare")

\* the stack as the operation leaves it
StackAfter ==
  IF call.op = "PrePrepare" THEN PrePrepare(d, call.ls, call.env).ls
  ELSE Prepare(d, call.ls, call.env).ls

\* the stack has the client's layers, followed by the demura layer exactly
\* while demura is active
DemuraAppended ==
  IF DemuraActive
  THEN /\ Len(StackAfter.layers) = Len(call.ls.layers) + 1
       /\ StackAfter.layers[Len(StackAfter.layers)] = demura_layer_
       /\ \A i \in DOMAIN call.ls.layers :
            StackAfter.layers[i].composition # kCompositionDemura
  ELSE Len(StackAfter.layers) = Len(call.ls.layers)

============================================================================
